---- MODULE Spec2Model ----
(***************************************************************************)
(* Model of the metrics-aggregation engine of smash-character-competency   *)
(* (src/metrics.py): compute_player_metrics folds PlayerEventResult        *)
(* records into one PlayerAggregate per player id, turns every aggregate   *)
(* with at least one counted set into an output row and sorts the rows by  *)
(* weighted_win_rate, descending.                                          *)
(*                                                                         *)
(* Conventions.                                                            *)
(*  - Optional[T]: None is <<>>, a present value v is <<v>>.               *)
(*  - A string the code transforms (lower, upper, strip) is a sequence of  *)
(*    one-character strings; strings that are only stored are TLA+ strings.*)
(*  - A Python float that is a quotient or a mean is an exact fraction     *)
(*    <<n, d>> in lowest terms with d > 0; event weights are fixed-point   *)
(*    integers in thousandths (0.1 is 100), and the running sums of event  *)
(*    weights round like float sums, at SignificandBits significant bits.  *)
(*  - A dict is the sequence of its entries in insertion order.            *)
(***************************************************************************)
EXTENDS Integers, Sequences, FiniteSets, TLC

VARIABLES
    player_results,      \* the records the iterable argument has produced so far
    target_character,    \* the argument target_character
    assume_target_main,  \* the argument assume_target_main
    idx,                 \* number of records the first loop has folded
    aggregates,          \* the dict player_id -> PlayerAggregate, insertion order
    rows,                \* the list of row dicts built by the second loop
    table,               \* the returned DataFrame: its rows in positional order
    index,               \* the returned DataFrame's index labels, row by row
    pc                   \* "fold" | "done" | "raised"

\* One call of _event_weight.
VARIABLES
    weigh_event,              \* the argument event
    weigh_now,                \* the argument now_ts
    weigh_out                 \* None before the call returns, then the weight returned

\* One call of build_player_event_results.
VARIABLES
    bundle,                   \* the argument: the seeds, standings and sets read so far
    seeds_map,                \* dict entrant id -> seedNum
    standings_map,            \* dict entrant id -> placement
    entrant_participant_map,  \* dict entrant id -> participant
    player_info_by_entrant,   \* dict entrant id -> player
    sets_by_player,           \* dict player id -> list of SetRecord
    build_results,            \* the list results returned
    build_pc                  \* "idle" | "seeds" | "standings" | "sets" | "done"

\* One call of smashcc.analysis.generate_character_report.
VARIABLES
    character,                \* the argument character, None or a name
    filtered,                 \* the DataFrame returned: its rows in positional order
    filtered_index,           \* the index labels of the DataFrame returned
    renamed,                  \* dict column of the metrics table -> its label in the DataFrame returned
    report_pc                 \* "idle" | "called" | "returned"

\* One call of smash_analysis.generate_character_report.
VARIABLES
    legacy_character,         \* the argument character, None or a name
    include_without_character,\* the argument include_without_character
    records,                  \* the records of fetch_state_player_records read so far
    legacy_rows,              \* the list rows
    legacy_pc                 \* "idle" | "loop" | "done" | "raised"

\* A StartGGClient and its calls of execute.
VARIABLES
    use_cache,                \* self.use_cache
    cache,                    \* the files of cache_dir: dict cache key -> stored data
    exec_call,                \* None, or the <<query, variables>> of the call in progress
    attempt,                  \* the local attempt of the call in progress
    posts,                    \* the HTTP POSTs issued by the call in progress or last finished
    wait_seconds,             \* None, or the last time.sleep argument of the call
    response,                 \* None, or the response of the last POST of the call
    exec_log,                 \* the finished calls: <<key, outcome, data, posts>> each
    exec_pc                   \* "idle" | "ready" | "post"

\* One iteration of the generator iter_recent_tournaments.
VARIABLES
    cutoff_unix,              \* the local cutoff_unix
    page,                     \* the local page
    nodes,                    \* the nodes of the current page not yet visited
    seen_newer,               \* the local seen_newer
    yielded,                  \* the nodes yielded so far
    requested,                \* the page numbers passed to execute so far
    served,                   \* the nodes of the pages returned by execute so far
    iter_pc                   \* "idle" | "request" | "nodes" | "stopped" | "raised"

\* One call of smash_data._paginate_event_field.
VARIABLES
    field_page,               \* the local page
    total_pages,              \* the local total_pages, None or a number
    field_results,            \* the list results
    field_requested,          \* the page numbers passed to client.execute so far
    field_payloads,           \* the payloads client.execute returned so far
    field_pc                  \* "idle" | "loop" | "returned" | "raised"

metricsVars == <<player_results, target_character, assume_target_main, idx,
                 aggregates, rows, table, index, pc>>

weighVars == <<weigh_event, weigh_now, weigh_out>>

buildVars == <<bundle, seeds_map, standings_map, entrant_participant_map,
               player_info_by_entrant, sets_by_player, build_results, build_pc>>

reportVars == <<character, filtered, filtered_index, renamed, report_pc>>

legacyVars == <<legacy_character, include_without_character, records,
                legacy_rows, legacy_pc>>

clientVars == <<use_cache, cache, exec_call, attempt, posts, wait_seconds,
                response, exec_log, exec_pc>>

iterVars == <<cutoff_unix, page, nodes, seen_newer, yielded, requested, served,
              iter_pc>>

paginateVars == <<field_page, total_pages, field_results, field_requested,
                  field_payloads, field_pc>>

vars == <<metricsVars, weighVars, buildVars, reportVars, legacyVars,
          clientVars, iterVars, paginateVars>>

\* The variables outside compute_player_metrics.
notMetricsVars == <<weighVars, buildVars, reportVars, legacyVars, clientVars,
                    iterVars, paginateVars>>

\* The variables outside _event_weight.
notWeighVars == <<metricsVars, buildVars, reportVars, legacyVars, clientVars,
                  iterVars, paginateVars>>

\* The variables outside build_player_event_results.
notBuildVars == <<metricsVars, weighVars, reportVars, legacyVars, clientVars,
                  iterVars, paginateVars>>

\* The variables outside smashcc generate_character_report.
notReportVars == <<metricsVars, weighVars, buildVars, legacyVars, clientVars,
                   iterVars, paginateVars>>

\* The variables outside smash_analysis.generate_character_report.
notLegacyVars == <<metricsVars, weighVars, buildVars, reportVars, clientVars,
                   iterVars, paginateVars>>

\* The variables outside StartGGClient.execute.
notClientVars == <<metricsVars, weighVars, buildVars, reportVars, legacyVars,
                   iterVars, paginateVars>>

\* The variables outside StartGGClient.iter_recent_tournaments.
notIterVars == <<metricsVars, weighVars, buildVars, reportVars, legacyVars,
                 clientVars, paginateVars>>

\* The variables outside smash_data._paginate_event_field.
notPaginateVars == <<metricsVars, weighVars, buildVars, reportVars, legacyVars,
                     clientVars, iterVars>>

----------------------------------------------------------------------------
(* Optional values *)

None == <<>>

Some(v) == <<v>>

IsNone(o) == o = <<>>

Get(o) == o[1]

\* Python truthiness of an Optional[int]: None and 0 are falsy.
TruthyInt(o) == o # None /\ Get(o) # 0

----------------------------------------------------------------------------
(* Strings as character sequences: str.lower, str.upper, str.strip *)

LowerChar(c) ==
    CASE c = "A" -> "a" [] c = "F" -> "f" [] c = "G" -> "g" [] c = "H" -> "h"
      [] c = "L" -> "l" [] c = "M" -> "m" [] c = "O" -> "o" [] c = "R" -> "r"
      [] c = "T" -> "t" [] c = "X" -> "x" [] OTHER -> c

UpperChar(c) ==
    CASE c = "a" -> "A" [] c = "f" -> "F" [] c = "g" -> "G" [] c = "h" -> "H"
      [] c = "l" -> "L" [] c = "m" -> "M" [] c = "o" -> "O" [] c = "r" -> "R"
      [] c = "t" -> "T" [] c = "x" -> "X" [] OTHER -> c

Lower(s) == [i \in 1..Len(s) |-> LowerChar(s[i])]

Upper(s) == [i \in 1..Len(s) |-> UpperChar(s[i])]

RECURSIVE LStrip(_)
LStrip(s) == IF s # <<>> /\ Head(s) = " " THEN LStrip(Tail(s)) ELSE s

RECURSIVE RStrip(_)
RStrip(s) ==
    IF s # <<>> /\ s[Len(s)] = " " THEN RStrip(SubSeq(s, 1, Len(s) - 1)) ELSE s

Strip(s) == RStrip(LStrip(s))

----------------------------------------------------------------------------
(* The parts of the program a specification does not exercise stay at rest *)

\* No call of compute_player_metrics.
MetricsIdle ==
    /\ player_results = <<>>
    /\ target_character = <<>>
    /\ assume_target_main = FALSE
    /\ idx = 0
    /\ aggregates = <<>>
    /\ rows = <<>>
    /\ table = <<>>
    /\ index = <<>>
    /\ pc = "idle"

\* No call of _event_weight.
WeighIdle ==
    /\ weigh_event = <<>>
    /\ weigh_now = 0
    /\ weigh_out = <<>>

\* No call of build_player_event_results.
BuildIdle ==
    /\ bundle = [seeds |-> <<>>, standings |-> <<>>, sets |-> <<>>]
    /\ seeds_map = <<>>
    /\ standings_map = <<>>
    /\ entrant_participant_map = <<>>
    /\ player_info_by_entrant = <<>>
    /\ sets_by_player = <<>>
    /\ build_results = <<>>
    /\ build_pc = "idle"

\* No call of smashcc generate_character_report.
ReportIdle ==
    /\ character = <<>>
    /\ filtered = <<>>
    /\ filtered_index = <<>>
    /\ renamed = <<>>
    /\ report_pc = "idle"

\* No call of smash_analysis.generate_character_report.
LegacyIdle ==
    /\ legacy_character = <<>>
    /\ include_without_character = FALSE
    /\ records = <<>>
    /\ legacy_rows = <<>>
    /\ legacy_pc = "idle"

\* No call of StartGGClient.execute.
ClientIdle ==
    /\ use_cache = FALSE
    /\ cache = <<>>
    /\ exec_call = <<>>
    /\ attempt = 0
    /\ posts = 0
    /\ wait_seconds = <<>>
    /\ response = <<>>
    /\ exec_log = <<>>
    /\ exec_pc = "idle"

\* No call of StartGGClient.iter_recent_tournaments.
IterIdle ==
    /\ cutoff_unix = 0
    /\ page = 0
    /\ nodes = <<>>
    /\ seen_newer = FALSE
    /\ yielded = <<>>
    /\ requested = <<>>
    /\ served = <<>>
    /\ iter_pc = "idle"

\* No call of smash_data._paginate_event_field.
PaginateIdle ==
    /\ field_page = 0
    /\ total_pages = <<>>
    /\ field_results = <<>>
    /\ field_requested = <<>>
    /\ field_payloads = <<>>
    /\ field_pc = "idle"

NotMetricsIdle == WeighIdle /\ BuildIdle /\ ReportIdle /\ LegacyIdle
                  /\ ClientIdle /\ IterIdle /\ PaginateIdle

NotWeighIdle == MetricsIdle /\ BuildIdle /\ ReportIdle /\ LegacyIdle
                /\ ClientIdle /\ IterIdle /\ PaginateIdle

NotBuildIdle == MetricsIdle /\ WeighIdle /\ ReportIdle /\ LegacyIdle
                /\ ClientIdle /\ IterIdle /\ PaginateIdle

NotReportIdle == MetricsIdle /\ WeighIdle /\ BuildIdle /\ LegacyIdle
                 /\ ClientIdle /\ IterIdle /\ PaginateIdle

NotLegacyIdle == MetricsIdle /\ WeighIdle /\ BuildIdle /\ ReportIdle
                 /\ ClientIdle /\ IterIdle /\ PaginateIdle

NotClientIdle == MetricsIdle /\ WeighIdle /\ BuildIdle /\ ReportIdle
                 /\ LegacyIdle /\ IterIdle /\ PaginateIdle

NotIterIdle == MetricsIdle /\ WeighIdle /\ BuildIdle /\ ReportIdle
               /\ LegacyIdle /\ ClientIdle /\ PaginateIdle

NotPaginateIdle == MetricsIdle /\ WeighIdle /\ BuildIdle /\ ReportIdle
                   /\ LegacyIdle /\ ClientIdle /\ IterIdle

----------------------------------------------------------------------------
(* Exact fractions *)

Abs(x) == IF x < 0 THEN -x ELSE x

RECURSIVE GCD(_, _)
GCD(a, b) == IF b = 0 THEN a ELSE GCD(b, a % b)

\* n / d for d > 0, in lowest terms.
Frac(n, d) ==
    LET g == GCD(Abs(n), d) IN <<n \div g, d \div g>>

RatAdd(p, q) == Frac(p[1] * q[2] + q[1] * p[2], p[2] * q[2])

RatLe(p, q) == p[1] * q[2] <= q[1] * p[2]

RatLt(p, q) == p[1] * q[2] < q[1] * p[2]

RECURSIVE SumInts(_)
SumInts(s) == IF s = <<>> THEN 0 ELSE Head(s) + SumInts(Tail(s))

RECURSIVE SumRats(_)
SumRats(s) == IF s = <<>> THEN <<0, 1>> ELSE RatAdd(Head(s), SumRats(Tail(s)))

\* statistics.mean of a non-empty list of integers / of fractions.
MeanInts(s) == Frac(SumInts(s), Len(s))

MeanRats(s) ==
    LET t == SumRats(s) IN Frac(t[1], t[2] * Len(s))

RECURSIVE MaxInts(_)
MaxInts(s) ==
    IF Len(s) = 1 THEN s[1]
    ELSE LET m == MaxInts(Tail(s)) IN IF Head(s) >= m THEN Head(s) ELSE m

----------------------------------------------------------------------------
(* _event_weight, in fixed point *)

\* now_ts: the clock reading of the call, a whole number of days since the epoch.
NowTs == 1641600000

SecondsPerDay == 86400

\* The floor 0.1 of the event weight, in thousandths.
MinWeightMilli == 100

\* exp(-1/90) in units of 2^-15: one day of the 90-day exponential decay.
PerDayDecayQ15 == 32406

RECURSIVE Pow2(_)
Pow2(k) == IF k = 0 THEN 1 ELSE 2 * Pow2(k - 1)

RECURSIVE FloorLog2(_)
FloorLog2(x) == IF x < 2 THEN 0 ELSE 1 + FloorLog2(x \div 2)

\* The first i binary digits of log2(y / 4096) for 4096 <= y < 8192, by repeated
\* squaring; the result is in units of 2^-i.
RECURSIVE Log2FracBits(_, _)
Log2FracBits(y, i) ==
    IF i = 0 THEN 0
    ELSE LET y2 == (y * y) \div 4096
         IN  IF y2 >= 8192
             THEN Pow2(i - 1) + Log2FracBits(y2 \div 2, i - 1)
             ELSE Log2FracBits(y2, i - 1)

\* math.log2(x) in thousandths, for an integer 1 <= x < 2^19; exact when x is a
\* power of two.
Log2Milli(x) ==
    LET k == FloorLog2(x)
        mant == (x * 4096) \div Pow2(k)
    IN  1000 * k + (Log2FracBits(mant, 10) * 1000) \div 1024

\* math.exp(-days / 90) in units of 2^-15, for a whole number of days.
RECURSIVE RecencyQ15(_)
RecencyQ15(days) ==
    IF days = 0 THEN 32768
    ELSE IF days % 2 = 0
         THEN LET h == RecencyQ15(days \div 2) IN (h * h) \div 32768
         ELSE (PerDayDecayQ15 * RecencyQ15(days - 1)) \div 32768

\* The significand width of the model's floats.  Python's floats round every
\* sum to 53 significant bits; the model rounds the same way, to nearest with
\* ties to even, at a width that keeps the sums within TLC's integers.
SignificandBits == 7

\* The float nearest to the non-negative value x (in thousandths).
RoundFloat(x) ==
    IF x < Pow2(SignificandBits) THEN x
    ELSE LET unit == Pow2(FloorLog2(x) - (SignificandBits - 1))
             q == x \div unit
             r == x % unit
         IN  IF 2 * r < unit \/ (2 * r = unit /\ q % 2 = 0)
             THEN q * unit
             ELSE (q + 1) * unit

\* a + b on floats, as in "agg.weight_sum += event_weight".
FloatAdd(a, b) == RoundFloat(a + b)

\* _event_weight without the floor of 0.1.
EventWeightNoFloor(event, now_ts) ==
    LET num_entrants == IF TruthyInt(event.numEntrants) THEN Get(event.numEntrants) ELSE 0
        log2 == Log2Milli(num_entrants + 1)
        size_weight == IF log2 # 0 THEN log2 ELSE 1000
        start_at == IF TruthyInt(event.startAt) THEN Get(event.startAt) ELSE now_ts
        recency_days == IF now_ts - start_at > 0
                        THEN (now_ts - start_at) \div SecondsPerDay ELSE 0
        recency_weight == RecencyQ15(recency_days)
        w == (size_weight * recency_weight) \div 32768
    IN  RoundFloat(w)

\* _event_weight(event, now_ts), in thousandths. event is a present event dict.
EventWeight(event, now_ts) ==
    LET num_entrants == IF TruthyInt(event.numEntrants) THEN Get(event.numEntrants) ELSE 0
        log2 == Log2Milli(num_entrants + 1)
        size_weight == IF log2 # 0 THEN log2 ELSE 1000
        start_at == IF TruthyInt(event.startAt) THEN Get(event.startAt) ELSE now_ts
        recency_days == IF now_ts - start_at > 0
                        THEN (now_ts - start_at) \div SecondsPerDay ELSE 0
        recency_weight == RecencyQ15(recency_days)
        w == (size_weight * recency_weight) \div 32768
    IN  RoundFloat(IF w > MinWeightMilli THEN w ELSE MinWeightMilli)

----------------------------------------------------------------------------
(* Helpers of the fold *)

\* _opponent_strength_value with the placement looked at before the seed.
OpponentStrengthPlacementFirst(set_record) ==
    IF TruthyInt(set_record.opponent_placement)
    THEN Some(Frac(1, Get(set_record.opponent_placement)))
    ELSE IF TruthyInt(set_record.opponent_seed)
         THEN Some(Frac(1, Get(set_record.opponent_seed)))
         ELSE None

\* _opponent_strength_value: Optional fraction.
OpponentStrengthValue(set_record) ==
    IF TruthyInt(set_record.opponent_seed)
    THEN Some(Frac(1, Get(set_record.opponent_seed)))
    ELSE IF TruthyInt(set_record.opponent_placement)
         THEN Some(Frac(1, Get(set_record.opponent_placement)))
         ELSE None

\* _uses_target_character without the two calls of lower().
UsesTargetCharacterCaseSensitive(set_record, target) ==
    LET chars == Get(set_record.characters)
    IN  \E i \in 1..Len(chars) : chars[i] = target

\* _uses_target_character; set_record.characters is a present list here.
UsesTargetCharacter(set_record, target) ==
    LET target_lower == Lower(target)
        chars == Get(set_record.characters)
    IN  \E i \in 1..Len(chars) : Lower(chars[i]) = target_lower

\* PlayerEventResult.location followed by _location_state: the player-level
\* location when it is a non-empty dict, else the participant-level one; then
\* its "state" entry.  A location is None or Some(state), state itself Optional.
LocationState(result) ==
    IF result.player_location # None THEN Get(result.player_location)
    ELSE IF result.user_location # None THEN Get(result.user_location)
         ELSE None

\* _normalize_state
NormalizeState(state) ==
    IF state = None \/ Get(state) = <<>> THEN None
    ELSE LET s == Upper(Strip(Get(state)))
         IN  IF s = <<>> THEN None ELSE Some(s)

UNKNOWN == <<"U", "N", "K", "N", "O", "W", "N">>

\* dict access on an insertion-ordered dict of <<key, value>> entries.
DictHas(d, k) == \E i \in 1..Len(d) : d[i][1] = k

DictGet(d, k, default) ==
    IF DictHas(d, k)
    THEN d[CHOOSE i \in 1..Len(d) : d[i][1] = k][2]
    ELSE default

DictSet(d, k, v) ==
    IF DictHas(d, k)
    THEN [i \in 1..Len(d) |-> IF d[i][1] = k THEN <<k, v>> ELSE d[i]]
    ELSE Append(d, <<k, v>>)

\* PlayerAggregate(player_id, gamer_tag, state, tournaments=set()) after
\* __post_init__.
NewAggregate(result) ==
    [player_id |-> result.player_id,
     gamer_tag |-> result.gamer_tag,
     state |-> LocationState(result),
     tournaments |-> {},
     events_played |-> 0,
     sets_played |-> 0,
     wins |-> 0,
     weighted_wins |-> 0,
     weight_sum |-> 0,
     seed_deltas |-> <<>>,
     opponent_strength_values |-> <<>>,
     sets_vs_higher_seed |-> 0,
     wins_vs_higher_seed |-> 0,
     character_sets |-> 0,
     character_wins |-> 0,
     character_weighted_wins |-> 0,
     character_weight_sum |-> 0,
     latest_event_start |-> 0,
     event_sizes |-> <<>>,
     event_state_counts |-> <<>>]

----------------------------------------------------------------------------
(* The first loop of compute_player_metrics: one record into its aggregate *)

\* FoldSet with the character counters updated before the unknown-outcome skip.
FoldSetCharacterBeforeSkip(agg, set_record, result, event_weight, target) ==
    LET uses == UsesTargetCharacter(set_record, target)
        known == set_record.won # None
        won == known /\ Get(set_record.won)
        strength == OpponentStrengthValue(set_record)
        higher == /\ set_record.opponent_seed # None
                  /\ result.seed_num # None
                  /\ Get(set_record.opponent_seed) < Get(result.seed_num)
    IN  [agg EXCEPT
           !.character_sets = IF uses THEN @ + 1 ELSE @,
           !.character_wins = IF uses /\ won THEN @ + 1 ELSE @,
           !.character_weighted_wins = IF uses /\ won THEN FloatAdd(@, event_weight) ELSE @,
           !.character_weight_sum = IF uses THEN FloatAdd(@, event_weight) ELSE @,
           !.sets_played = IF known THEN @ + 1 ELSE @,
           !.wins = IF won THEN @ + 1 ELSE @,
           !.weighted_wins = IF won THEN FloatAdd(@, event_weight) ELSE @,
           !.weight_sum = IF known THEN FloatAdd(@, event_weight) ELSE @,
           !.opponent_strength_values =
               IF known /\ strength # None THEN Append(@, Get(strength)) ELSE @,
           !.sets_vs_higher_seed = IF known /\ higher THEN @ + 1 ELSE @,
           !.wins_vs_higher_seed = IF higher /\ won THEN @ + 1 ELSE @]

\* FoldSet with weight_sum increased for won sets only.
FoldSetWeightSumOnWin(agg, set_record, result, event_weight, target) ==
    IF set_record.won = None THEN agg
    ELSE
    LET won == Get(set_record.won)
        strength == OpponentStrengthValue(set_record)
        higher == /\ set_record.opponent_seed # None
                  /\ result.seed_num # None
                  /\ Get(set_record.opponent_seed) < Get(result.seed_num)
        uses == UsesTargetCharacter(set_record, target)
    IN  [agg EXCEPT
           !.sets_played = @ + 1,
           !.wins = IF won THEN @ + 1 ELSE @,
           !.weighted_wins = IF won THEN FloatAdd(@, event_weight) ELSE @,
           !.weight_sum = IF won THEN FloatAdd(@, event_weight) ELSE @,
           !.opponent_strength_values =
               IF strength # None THEN Append(@, Get(strength)) ELSE @,
           !.sets_vs_higher_seed = IF higher THEN @ + 1 ELSE @,
           !.wins_vs_higher_seed = IF higher /\ won THEN @ + 1 ELSE @,
           !.character_sets = IF uses THEN @ + 1 ELSE @,
           !.character_wins = IF uses /\ won THEN @ + 1 ELSE @,
           !.character_weighted_wins = IF uses /\ won THEN FloatAdd(@, event_weight) ELSE @,
           !.character_weight_sum = IF uses THEN FloatAdd(@, event_weight) ELSE @]

\* FoldSet with the two higher-seed counters updated before the
\* unknown-outcome skip.
FoldSetUpsetBeforeSkip(agg, set_record, result, event_weight, target) ==
    LET known == set_record.won # None
        won == known /\ Get(set_record.won)
        strength == OpponentStrengthValue(set_record)
        higher == /\ set_record.opponent_seed # None
                  /\ result.seed_num # None
                  /\ Get(set_record.opponent_seed) < Get(result.seed_num)
        uses == known /\ UsesTargetCharacter(set_record, target)
    IN  [agg EXCEPT
           !.sets_vs_higher_seed = IF higher THEN @ + 1 ELSE @,
           !.wins_vs_higher_seed = IF higher /\ won THEN @ + 1 ELSE @,
           !.sets_played = IF known THEN @ + 1 ELSE @,
           !.wins = IF won THEN @ + 1 ELSE @,
           !.weighted_wins = IF won THEN FloatAdd(@, event_weight) ELSE @,
           !.weight_sum = IF known THEN FloatAdd(@, event_weight) ELSE @,
           !.opponent_strength_values =
               IF known /\ strength # None THEN Append(@, Get(strength)) ELSE @,
           !.character_sets = IF uses THEN @ + 1 ELSE @,
           !.character_wins = IF uses /\ won THEN @ + 1 ELSE @,
           !.character_weighted_wins = IF uses /\ won THEN FloatAdd(@, event_weight) ELSE @,
           !.character_weight_sum = IF uses THEN FloatAdd(@, event_weight) ELSE @]

\* FoldSet counting an opponent of equal seed as a higher seed.
FoldSetHigherOrEqualSeed(agg, set_record, result, event_weight, target) ==
    IF set_record.won = None THEN agg
    ELSE
    LET won == Get(set_record.won)
        strength == OpponentStrengthValue(set_record)
        higher == /\ set_record.opponent_seed # None
                  /\ result.seed_num # None
                  /\ Get(set_record.opponent_seed) <= Get(result.seed_num)
        uses == UsesTargetCharacter(set_record, target)
    IN  [agg EXCEPT
           !.sets_played = @ + 1,
           !.wins = IF won THEN @ + 1 ELSE @,
           !.weighted_wins = IF won THEN FloatAdd(@, event_weight) ELSE @,
           !.weight_sum = FloatAdd(@, event_weight),
           !.opponent_strength_values =
               IF strength # None THEN Append(@, Get(strength)) ELSE @,
           !.sets_vs_higher_seed = IF higher THEN @ + 1 ELSE @,
           !.wins_vs_higher_seed = IF higher /\ won THEN @ + 1 ELSE @,
           !.character_sets = IF uses THEN @ + 1 ELSE @,
           !.character_wins = IF uses /\ won THEN @ + 1 ELSE @,
           !.character_weighted_wins = IF uses /\ won THEN FloatAdd(@, event_weight) ELSE @,
           !.character_weight_sum = IF uses THEN FloatAdd(@, event_weight) ELSE @]

\* The body of "for set_record in result.sets" for one set.
FoldSet(agg, set_record, result, event_weight, target) ==
    IF set_record.won = None THEN agg
    ELSE
    LET won == Get(set_record.won)
        strength == OpponentStrengthValue(set_record)
        higher == /\ set_record.opponent_seed # None
                  /\ result.seed_num # None
                  /\ Get(set_record.opponent_seed) < Get(result.seed_num)
        uses == UsesTargetCharacter(set_record, target)
    IN  [agg EXCEPT
           !.sets_played = @ + 1,
           !.wins = IF won THEN @ + 1 ELSE @,
           !.weighted_wins = IF won THEN FloatAdd(@, event_weight) ELSE @,
           !.weight_sum = FloatAdd(@, event_weight),
           !.opponent_strength_values =
               IF strength # None THEN Append(@, Get(strength)) ELSE @,
           !.sets_vs_higher_seed = IF higher THEN @ + 1 ELSE @,
           !.wins_vs_higher_seed = IF higher /\ won THEN @ + 1 ELSE @,
           !.character_sets = IF uses THEN @ + 1 ELSE @,
           !.character_wins = IF uses /\ won THEN @ + 1 ELSE @,
           !.character_weighted_wins = IF uses /\ won THEN FloatAdd(@, event_weight) ELSE @,
           !.character_weight_sum = IF uses THEN FloatAdd(@, event_weight) ELSE @]

RECURSIVE FoldSets(_, _, _, _, _)
FoldSets(agg, sets, result, event_weight, target) ==
    IF sets = <<>> THEN agg
    ELSE FoldSets(FoldSet(agg, Head(sets), result, event_weight, target),
                  Tail(sets), result, event_weight, target)

\* "if tournament_name": with the test "is not None" / as written.
TournamentNamedNotNone(tournament_name) == tournament_name # None

TournamentNamed(tournament_name) ==
    tournament_name # None /\ Get(tournament_name) # ""

\* The value appended to seed_deltas: with the operands exchanged / as written,
\* float(result.seed_num) - float(result.placement), both being integers.
SeedDeltaReversed(result) == Get(result.placement) - Get(result.seed_num)

SeedDelta(result) == Get(result.seed_num) - Get(result.placement)

\* The record-level part of the loop body, before the loop over the sets.
FoldEvent(agg, result, now_ts) ==
    LET tournament == Get(result.tournament)
        event == Get(result.event)
        tournament_name == tournament.name
        event_start == event.startAt
        event_size == event.numEntrants
        tournament_state == tournament.addrState
        normalized == NormalizeState(tournament_state)
        state_key == IF normalized = None THEN UNKNOWN ELSE Get(normalized)
    IN  [agg EXCEPT
           !.events_played = @ + 1,
           !.tournaments =
               IF TournamentNamed(tournament_name)
               THEN @ \cup {Get(tournament_name)} ELSE @,
           !.seed_deltas =
               IF result.seed_num # None /\ result.placement # None
               THEN Append(@, SeedDelta(result)) ELSE @,
           !.latest_event_start =
               IF TruthyInt(event_start) /\ Get(event_start) > @
               THEN Get(event_start) ELSE @,
           !.event_sizes =
               IF TruthyInt(event_size) THEN Append(@, Get(event_size)) ELSE @,
           !.event_state_counts =
               IF tournament_state # None /\ Get(tournament_state) # <<>>
               THEN DictSet(@, state_key, DictGet(@, state_key, 0) + 1) ELSE @]

\* The places where the loop body dereferences a value that may be None:
\* result.tournament.get (line 115), event.get in _event_weight (line 60) and the
\* iteration over set_record.characters (line 79), reached for counted sets only.
RecordRaises(result) ==
    \/ result.tournament = None
    \/ result.event = None
    \/ \E i \in 1..Len(result.sets) :
          result.sets[i].won # None /\ result.sets[i].characters = None

AggIndex(aggs, player_id) ==
    IF \E i \in 1..Len(aggs) : aggs[i].player_id = player_id
    THEN CHOOSE i \in 1..Len(aggs) : aggs[i].player_id = player_id
    ELSE 0

\* FoldRecord that also copies gamer_tag and the profile state of the record
\* into an aggregate that exists already.
FoldRecordLatestIdentity(aggs, result, now_ts, target) ==
    LET i == AggIndex(aggs, result.player_id)
        agg == IF i = 0 THEN NewAggregate(result)
               ELSE [aggs[i] EXCEPT !.gamer_tag = result.gamer_tag,
                                    !.state = LocationState(result)]
        event_weight == EventWeight(Get(result.event), now_ts)
        after == FoldSets(FoldEvent(agg, result, now_ts), result.sets, result,
                          event_weight, target)
    IN  IF i = 0 THEN Append(aggs, after) ELSE [aggs EXCEPT ![i] = after]

\* One iteration of "for result in player_results" for a record that does not
\* raise: aggregates.get / create, then the record-level and per-set updates.
FoldRecord(aggs, result, now_ts, target) ==
    LET i == AggIndex(aggs, result.player_id)
        agg == IF i = 0 THEN NewAggregate(result) ELSE aggs[i]
        event_weight == EventWeight(Get(result.event), now_ts)
        after == FoldSets(FoldEvent(agg, result, now_ts), result.sets, result,
                          event_weight, target)
    IN  IF i = 0 THEN Append(aggs, after) ELSE [aggs EXCEPT ![i] = after]

RECURSIVE FoldAll(_, _, _, _)
FoldAll(aggs, results, now_ts, target) ==
    IF results = <<>> THEN aggs
    ELSE FoldAll(FoldRecord(aggs, Head(results), now_ts, target), Tail(results),
                 now_ts, target)

----------------------------------------------------------------------------
(* The second loop: one aggregate into its output row *)

\* max(agg.event_state_counts.items(), key=count): the first entry, in insertion
\* order, whose count is the largest.
RECURSIVE TopItem(_)
TopItem(d) ==
    IF Len(d) = 1 THEN d[1]
    ELSE LET rest == TopItem(SubSeq(d, 1, Len(d) - 1))
         IN  IF d[Len(d)][2] > rest[2] THEN d[Len(d)] ELSE rest

RECURSIVE SumCounts(_)
SumCounts(d) == IF d = <<>> THEN 0 ELSE Head(d)[2] + SumCounts(Tail(d))

\* InferRegion with the threshold test confidence >= 0.5.
InferRegionAtLeastHalf(event_state_counts) ==
    LET total_state_events == SumCounts(event_state_counts)
        top == TopItem(event_state_counts)
        confidence == Frac(top[2], total_state_events)
    IN  IF total_state_events # 0 /\ top[1] # UNKNOWN /\ RatLe(<<1, 2>>, confidence)
        THEN <<Some(top[1]), Some(confidence)>>
        ELSE <<None, None>>

\* InferFrom with the threshold test confidence >= 0.5.
InferFromAtLeastHalf(top, total_state_events) ==
    LET confidence == Frac(top[2], total_state_events)
    IN  IF top[1] # UNKNOWN /\ RatLe(<<1, 2>>, confidence)
        THEN <<Some(top[1]), Some(confidence)>>
        ELSE <<None, None>>

\* Lines 190-196: what is inferred from the entry top = <<top_state, top_count>>
\* that max returned, total_state_events being non-zero.
InferFrom(top, total_state_events) ==
    LET confidence == Frac(top[2], total_state_events)
    IN  IF top[1] # UNKNOWN /\ RatLt(<<1, 2>>, confidence)
        THEN <<Some(top[1]), Some(confidence)>>
        ELSE <<None, None>>

\* Lines 184-196: <<inferred_state, inferred_state_confidence>>.
InferRegion(event_state_counts) ==
    LET total_state_events == SumCounts(event_state_counts)
    IN  IF total_state_events # 0
        THEN InferFrom(TopItem(event_state_counts), total_state_events)
        ELSE <<None, None>>

\* HomeRegion with home_state_inferred true whenever a region was inferred.
HomeRegionInferredIgnoringExplicit(explicit_state, inferred) ==
    LET inferred_state == inferred[1]
        inferred_state_confidence == inferred[2]
        home_state_inferred == inferred_state # None
    IN  <<IF explicit_state # None THEN explicit_state ELSE inferred_state,
          home_state_inferred,
          IF home_state_inferred THEN inferred_state_confidence
          ELSE IF explicit_state # None THEN Some(<<1, 1>>) ELSE None>>

\* Lines 198-203: <<home_state, home_state_inferred, home_state_confidence>>.
HomeRegion(explicit_state, inferred) ==
    LET inferred_state == inferred[1]
        inferred_state_confidence == inferred[2]
        home_state_inferred == explicit_state = None /\ inferred_state # None
    IN  <<IF explicit_state # None THEN explicit_state ELSE inferred_state,
          home_state_inferred,
          IF home_state_inferred THEN inferred_state_confidence
          ELSE IF explicit_state # None THEN Some(<<1, 1>>) ELSE None>>

\* Fallback without the test of the caller's flag.
FallbackIgnoringFlag(agg, assume) ==
    agg.character_sets = 0 /\ agg.sets_played > 0

\* Lines 218-222: the condition of the "assume target is main" override.
Fallback(agg, assume) ==
    assume /\ agg.character_sets = 0 /\ agg.sets_played > 0

\* Lines 170-264: the row dict of an aggregate with sets_played > 0.
RowOf(agg, assume) ==
    LET win_rate == IF agg.sets_played # 0
                    THEN Some(Frac(agg.wins, agg.sets_played)) ELSE None
        weighted_win_rate == IF agg.weight_sum # 0
                             THEN Some(Frac(agg.weighted_wins, agg.weight_sum)) ELSE None
        inferred == InferRegion(agg.event_state_counts)
        inferred_state == inferred[1]
        inferred_state_confidence == inferred[2]
        explicit_state == NormalizeState(agg.state)
        home == HomeRegion(explicit_state, inferred)
        fallback == Fallback(agg, assume)
    IN  [player_id |-> agg.player_id,
         gamer_tag |-> agg.gamer_tag,
         state |-> explicit_state,
         events_played |-> agg.events_played,
         sets_played |-> agg.sets_played,
         win_rate |-> win_rate,
         weighted_win_rate |-> weighted_win_rate,
         avg_seed_delta |->
             IF agg.seed_deltas # <<>> THEN Some(MeanInts(agg.seed_deltas)) ELSE None,
         opponent_strength |->
             IF agg.opponent_strength_values # <<>>
             THEN Some(MeanRats(agg.opponent_strength_values)) ELSE None,
         character_sets |-> IF fallback THEN agg.sets_played ELSE agg.character_sets,
         character_win_rate |->
             IF fallback THEN win_rate
             ELSE IF agg.character_sets # 0
                  THEN Some(Frac(agg.character_wins, agg.character_sets)) ELSE None,
         character_weighted_win_rate |->
             IF fallback THEN weighted_win_rate
             ELSE IF agg.character_weight_sum # 0
                  THEN Some(Frac(agg.character_weighted_wins, agg.character_weight_sum))
                  ELSE None,
         character_usage_rate |->
             IF fallback THEN <<1, 1>>
             ELSE IF agg.sets_played # 0
                  THEN Frac(agg.character_sets, agg.sets_played) ELSE <<0, 1>>,
         upset_rate |->
             IF agg.sets_vs_higher_seed # 0
             THEN Some(Frac(agg.wins_vs_higher_seed, agg.sets_vs_higher_seed)) ELSE None,
         activity_score |-> Frac(10 * agg.events_played + agg.sets_played, 10),
         tournaments_played |-> Cardinality(agg.tournaments),
         latest_event_start |-> agg.latest_event_start,
         avg_event_entrants |->
             IF agg.event_sizes # <<>> THEN Some(MeanInts(agg.event_sizes)) ELSE None,
         max_event_entrants |->
             IF agg.event_sizes # <<>> THEN Some(MaxInts(agg.event_sizes)) ELSE None,
         events_with_known_state |-> SumCounts(agg.event_state_counts),
         inferred_state |-> inferred_state,
         inferred_state_confidence |-> inferred_state_confidence,
         home_state |-> home[1],
         home_state_inferred |-> home[2],
         home_state_confidence |-> home[3]]

\* FinalizeAggregate with the override written to the aggregate, not to a local.
FinalizeAggregateWritesBack(agg, assume) ==
    [rows |-> IF agg.sets_played = 0 THEN <<>> ELSE <<RowOf(agg, assume)>>,
     agg |-> IF Fallback(agg, assume)
             THEN [agg EXCEPT !.character_sets = agg.sets_played] ELSE agg]

\* FinalizeAggregate without the sets_played == 0 skip.
FinalizeAggregateNoSkip(agg, assume) ==
    [rows |-> <<RowOf(agg, assume)>>, agg |-> agg]

\* One iteration of "for agg in aggregates.values()": the rows it appends (none
\* when sets_played is 0) and the aggregate as the iteration leaves it.
FinalizeAggregate(agg, assume) ==
    [rows |-> IF agg.sets_played = 0 THEN <<>> ELSE <<RowOf(agg, assume)>>,
     agg |-> agg]

RECURSIVE Concat(_)
Concat(ss) == IF ss = <<>> THEN <<>> ELSE Head(ss) \o Concat(Tail(ss))

\* The list "rows" after the second loop over aggs.
EmittedRows(aggs, assume) ==
    Concat([i \in 1..Len(aggs) |-> FinalizeAggregate(aggs[i], assume).rows])

\* MayPrecede of an ascending sort.
MayPrecedeAscending(a, b) ==
    \/ b.weighted_win_rate = None
    \/ /\ a.weighted_win_rate # None
       /\ RatLe(Get(a.weighted_win_rate), Get(b.weighted_win_rate))

\* df.sort_values("weighted_win_rate", ascending=False) with the default
\* na_position and the default, unstable sort kind: row i may precede row j
\* when its key is not smaller, an absent key (NaN) going last.
MayPrecede(a, b) ==
    \/ b.weighted_win_rate = None
    \/ /\ a.weighted_win_rate # None
       /\ RatLe(Get(b.weighted_win_rate), Get(a.weighted_win_rate))

\* Every order sort_values may leave the rows in: q[i] is the position in rs
\* of the row that comes i-th.
SortOrders(rs) ==
    LET n == Len(rs)
        perms == {p \in [1..n -> 1..n] : \A i, j \in 1..n : i # j => p[i] # p[j]}
    IN  {q \in perms : \A i, j \in 1..n : i < j => MayPrecede(rs[q[i]], rs[q[j]])}

\* df.reset_index(drop=True): the labels become 0..n-1.
ResetIndex(labels) == [i \in 1..Len(labels) |-> i - 1]

----------------------------------------------------------------------------
(* Inputs *)

Marth == <<"M", "a", "r", "t", "h">>

MARTH == <<"M", "A", "R", "T", "H">>

Fox == <<"F", "o", "x">>

GA == <<"G", "A">>

Days(n) == n * SecondsPerDay

\* A 32-entrant event starting now and a 7-entrant event 90 days old.
EventNow == [numEntrants |-> Some(32), startAt |-> Some(NowTs)]

EventOld == [numEntrants |-> Some(7), startAt |-> Some(NowTs - Days(90))]

\* An event of long ago without entrants: its weight is the floor.
EventAncient == [numEntrants |-> Some(0), startAt |-> Some(1)]

TournamentPlain == [name |-> Some("T1"), addrState |-> None]

SetRecord(won, opponent_seed, opponent_placement, characters) ==
    [won |-> won, opponent_seed |-> opponent_seed,
     opponent_placement |-> opponent_placement, characters |-> characters]

\* Sets of the core family: a win or a loss against a higher seed with the
\* target character (spelled in another case) or against a lower seed with
\* another character, and a set of unknown outcome.
CoreSets ==
    {SetRecord(w, k[1], None, Some(<<k[2]>>)) :
        w \in {Some(TRUE), Some(FALSE)},
        k \in {<<Some(1), MARTH>>, <<Some(3), Fox>>}}
    \cup {SetRecord(None, Some(1), None, Some(<<MARTH>>))}

\* Records of the core family with exactly n sets: two players, two events of
\* different weight.
CoreResults(n) ==
    {[player_id |-> p, gamer_tag |-> "Alice", player_location |-> None,
      user_location |-> None, seed_num |-> Some(2), placement |-> Some(3),
      event |-> Some(e), tournament |-> Some(TournamentPlain), sets |-> ss] :
        p \in {1000, 2000}, e \in {EventNow, EventOld},
        ss \in [1..n -> CoreSets]}

----------------------------------------------------------------------------
(* Actions *)

\* The core family: at most MaxRecords records in a call, holding at most
\* MaxSets sets in all.
MaxRecords == 2

MaxSets == 2

\* The region family: at most MaxRegionRecords records, one set each.
MaxRegionRecords == 4

FL == <<"F", "L">>

\* One counted set, won, without seeds or characters.
PlainWin == SetRecord(Some(TRUE), None, None, Some(<<>>))

PlainLoss == SetRecord(Some(FALSE), None, None, Some(<<>>))

\* Records of the region family: one player; the profile location is absent,
\* or " ga" at player level, or "fl" at participant level only; the tournament's
\* addrState is absent, "GA", "fl " or blank.
RegionResults ==
    {[player_id |-> 1000, gamer_tag |-> "Alice", player_location |-> loc[1],
      user_location |-> loc[2], seed_num |-> None, placement |-> None,
      event |-> Some(EventNow),
      tournament |-> Some([name |-> Some("T1"), addrState |-> addr]),
      sets |-> <<PlainWin>>] :
        loc \in {<<None, None>>, <<Some(Some(<<" ", "g", "a">>)), None>>,
                 <<None, Some(Some(<<"f", "l">>))>>},
        addr \in {None, Some(GA), Some(<<"f", "l", " ">>), Some(<<" ">>)}}

\* The identity family: at most MaxIdentityRecords records, one set each.
MaxIdentityRecords == 3

\* Records of the identity family: two players, each seen under two display
\* names and with or without a profile location, one set won or lost.
IdentityResults ==
    {[player_id |-> p, gamer_tag |-> tag, player_location |-> loc,
      user_location |-> None, seed_num |-> None, placement |-> None,
      event |-> Some(EventNow), tournament |-> Some(TournamentPlain),
      sets |-> <<s>>] :
        p \in {1000, 2000}, tag \in {"Alice", "Al1ce"},
        loc \in {None, Some(Some(GA))}, s \in {PlainWin, PlainLoss}}

\* The optional family: one record in a call.
MaxOptionalRecords == 1

\* Records of the optional family with n <= 1 sets: every optional field
\* present or absent (None); a present event or tournament dict with each of
\* its entries present or absent; the character list None, empty or not.
OptionalResults(n) ==
    IF n > 1 THEN {}
    ELSE
    {[player_id |-> 1000, gamer_tag |-> "Alice", player_location |-> loc,
      user_location |-> None, seed_num |-> seed, placement |-> placement,
      event |-> e, tournament |-> t, sets |-> ss] :
        loc \in {None, Some(None), Some(Some(GA))},
        seed \in {None, Some(2)}, placement \in {None, Some(3)},
        e \in {None} \cup {Some([numEntrants |-> ne, startAt |-> st]) :
                             ne \in {None, Some(32)}, st \in {None, Some(NowTs)}},
        t \in {None} \cup {Some([name |-> nm, addrState |-> addr]) :
                             nm \in {None, Some("T1")}, addr \in {None, Some(GA)}},
        ss \in [1..n -> {SetRecord(w, os, op, ch) :
                            w \in {None, Some(TRUE)}, os \in {None, Some(1)},
                            op \in {None, Some(4)},
                            ch \in {None, Some(<<>>), Some(<<Marth>>)}}]}

\* The weight family: at most MaxWeightRecords records in a call, holding at
\* most MaxWeightSets sets in all.
MaxWeightRecords == 2

MaxWeightSets == 4

\* Records of the weight family with exactly n sets: one player, three events
\* of different weight, each set won or lost.
WeightResults(n) ==
    {[player_id |-> 1000, gamer_tag |-> "Alice", player_location |-> None,
      user_location |-> None, seed_num |-> None, placement |-> None,
      event |-> Some(e), tournament |-> Some(TournamentPlain), sets |-> ss] :
        e \in {EventNow, EventOld, EventAncient},
        ss \in [1..n -> {PlainWin, PlainLoss}]}

\* The upset family: at most MaxUpsetRecords records in a call, holding at
\* most MaxUpsetSets sets in all.
MaxUpsetRecords == 2

MaxUpsetSets == 2

\* Sets of the upset family: won, lost or of unknown outcome, against an
\* opponent without seed, of the higher seed 1 or of the player's own seed 2,
\* with the target character.
UpsetSets ==
    {SetRecord(w, os, None, Some(<<MARTH>>)) :
        w \in {None, Some(TRUE), Some(FALSE)},
        os \in {None, Some(1), Some(2)}}

\* Records of the upset family with exactly n sets: one player, seeded 2 or
\* without seed.
UpsetResults(n) ==
    {[player_id |-> 1000, gamer_tag |-> "Alice", player_location |-> None,
      user_location |-> None, seed_num |-> seed, placement |-> None,
      event |-> Some(EventNow), tournament |-> Some(TournamentPlain), sets |-> ss] :
        seed \in {None, Some(2)}, ss \in [1..n -> UpsetSets]}

\* The strength family: at most MaxStrengthRecords records in a call, holding
\* at most MaxStrengthSets sets in all.
MaxStrengthRecords == 2

MaxStrengthSets == 2

\* Sets of the strength family: won or of unknown outcome, the opponent's seed
\* and placement both absent, seed 0 with placement 2, seed 4 with placement 2,
\* placement 0 alone, seed 1 alone.
StrengthSets ==
    {SetRecord(w, k[1], k[2], Some(<<>>)) :
        w \in {None, Some(TRUE)},
        k \in {<<None, None>>, <<Some(0), Some(2)>>, <<Some(4), Some(2)>>,
               <<None, Some(0)>>, <<Some(1), None>>}}

\* Records of the strength family with exactly n sets: one player.
StrengthResults(n) ==
    {[player_id |-> 1000, gamer_tag |-> "Alice", player_location |-> None,
      user_location |-> None, seed_num |-> None, placement |-> None,
      event |-> Some(EventNow), tournament |-> Some(TournamentPlain), sets |-> ss] :
        ss \in [1..n -> StrengthSets]}

\* The character family: at most MaxCharacterRecords records in a call,
\* holding at most MaxCharacterSets sets in all.
MaxCharacterRecords == 2

MaxCharacterSets == 2

\* Sets of the character family: won, lost or of unknown outcome; the
\* character list is empty, names another character before the target in
\* another case, or names the target followed by a space.
CharacterSets ==
    {SetRecord(w, None, None, Some(ch)) :
        w \in {None, Some(TRUE), Some(FALSE)},
        ch \in {<<>>, <<Fox, MARTH>>, <<Marth \o <<" ">>>>}}

\* Records of the character family with exactly n sets: one player, two
\* events of different weight.
CharacterResults(n) ==
    {[player_id |-> 1000, gamer_tag |-> "Alice", player_location |-> None,
      user_location |-> None, seed_num |-> None, placement |-> None,
      event |-> Some(e), tournament |-> Some(TournamentPlain), sets |-> ss] :
        e \in {EventNow, EventOld}, ss \in [1..n -> CharacterSets]}

\* The event family: at most MaxEventRecords records in a call, holding at
\* most MaxEventSets sets in all.
MaxEventRecords == 2

MaxEventSets == 2

\* Records of the event family with exactly n sets, n being 0 or 1 (a won set).
\* Alice's seed and placement are each absent, or both present with a
\* positive, a negative or a zero difference, and her tournament's name is
\* absent, empty, "T1" or "T2"; Bob is seeded 2 and placed 1 at "T2".
EventResults(n) ==
    IF n > 1 THEN {}
    ELSE {[player_id |-> p[1], gamer_tag |-> p[2], player_location |-> None,
           user_location |-> None, seed_num |-> p[3][1], placement |-> p[3][2],
           event |-> Some(EventNow),
           tournament |-> Some([name |-> p[4], addrState |-> None]),
           sets |-> [i \in 1..n |-> PlainWin]] :
             p \in ({1000} \X {"Alice"}
                       \X {<<None, Some(1)>>, <<Some(2), None>>, <<Some(2), Some(1)>>,
                           <<Some(2), Some(3)>>, <<Some(0), Some(0)>>}
                       \X {None, Some(""), Some("T1"), Some("T2")})
                    \cup {<<2000, "Bob", <<Some(2), Some(1)>>, Some("T2")>>}}

\* The tally family: at most MaxTallyRecords records, one set each.
MaxTallyRecords == 6

\* Records of the tally family: one player without profile location; the
\* tournament's addrState is absent, "GA", "fl " or blank.
TallyResults ==
    {[player_id |-> 1000, gamer_tag |-> "Alice", player_location |-> None,
      user_location |-> None, seed_num |-> None, placement |-> None,
      event |-> Some(EventNow),
      tournament |-> Some([name |-> Some("T1"), addrState |-> addr]),
      sets |-> <<PlainWin>>] :
        addr \in {None, Some(GA), Some(<<"f", "l", " ">>), Some(<<" ">>)}}

\* The records with exactly n sets of an input family.
Results(family, n) ==
    CASE family = "core" -> CoreResults(n)
      [] family = "region" -> IF n = 1 THEN RegionResults ELSE {}
      [] family = "identity" -> IF n = 1 THEN IdentityResults ELSE {}
      [] family = "optional" -> OptionalResults(n)
      [] family = "weight" -> WeightResults(n)
      [] family = "upset" -> UpsetResults(n)
      [] family = "strength" -> StrengthResults(n)
      [] family = "character" -> CharacterResults(n)
      [] family = "event" -> EventResults(n)
      [] family = "tally" -> IF n = 1 THEN TallyResults ELSE {}

\* The number of sets of the records the iterable has produced so far.
RECURSIVE TotalSets(_)
TotalSets(results) ==
    IF results = <<>> THEN 0 ELSE Len(Head(results).sets) + TotalSets(Tail(results))

\* One iteration of the first loop: the iterable player_results produces its
\* next record, one of the family's records with n sets for some n (at most
\* maxRecords records holding at most maxSets sets in all), and the loop body
\* folds it; an exception ends the call.
Fold(family, maxRecords, maxSets) ==
    /\ pc = "fold"
    /\ Len(player_results) < maxRecords
    /\ \E n \in 0..(maxSets - TotalSets(player_results)) : \E result \in Results(family, n) :
          /\ player_results' = Append(player_results, result)
          /\ IF RecordRaises(result)
             THEN /\ pc' = "raised"
                  /\ UNCHANGED <<idx, aggregates>>
             ELSE /\ aggregates' = FoldRecord(aggregates, result, NowTs, target_character)
                  /\ idx' = idx + 1
                  /\ pc' = "fold"
    /\ UNCHANGED <<target_character, assume_target_main, rows, table, index>>
    /\ UNCHANGED notMetricsVars

\* The second loop, the DataFrame, its sort and re-index, and the return.
Finalize ==
    /\ pc = "fold"
    /\ aggregates' = [i \in 1..Len(aggregates) |->
                         FinalizeAggregate(aggregates[i], assume_target_main).agg]
    /\ rows' = EmittedRows(aggregates, assume_target_main)
    /\ \E q \in SortOrders(rows') :
          /\ table' = [i \in 1..Len(rows') |-> rows'[q[i]]]
          /\ index' = IF rows' = <<>> THEN <<>>
                      ELSE ResetIndex([i \in 1..Len(rows') |-> q[i] - 1])
    /\ pc' = "done"
    /\ UNCHANGED <<player_results, target_character, assume_target_main, idx>>
    /\ UNCHANGED notMetricsVars

InitWith(flags) ==
    /\ NotMetricsIdle
    /\ player_results = <<>>
    /\ target_character = Marth
    /\ assume_target_main \in flags
    /\ idx = 0
    /\ aggregates = <<>>
    /\ rows = <<>>
    /\ table = <<>>
    /\ index = <<>>
    /\ pc = "fold"

\* A call with either value of assume_target_main / with its default, False.
Init == InitWith(BOOLEAN)

InitDefault == InitWith({FALSE})

FoldCore == Fold("core", MaxRecords, MaxSets)

FoldRegion == Fold("region", MaxRegionRecords, MaxRegionRecords)

FoldIdentity == Fold("identity", MaxIdentityRecords, MaxIdentityRecords)

FoldOptional == Fold("optional", MaxOptionalRecords, MaxOptionalRecords)

FoldWeight == Fold("weight", MaxWeightRecords, MaxWeightSets)

FoldUpset == Fold("upset", MaxUpsetRecords, MaxUpsetSets)

FoldStrength == Fold("strength", MaxStrengthRecords, MaxStrengthSets)

FoldCharacter == Fold("character", MaxCharacterRecords, MaxCharacterSets)

FoldEvents == Fold("event", MaxEventRecords, MaxEventSets)

FoldTally == Fold("tally", MaxTallyRecords, MaxTallyRecords)

Next == FoldCore \/ Finalize

NextRegion == FoldRegion \/ Finalize

NextIdentity == FoldIdentity \/ Finalize

NextOptional == FoldOptional \/ Finalize

NextWeight == FoldWeight \/ Finalize

NextUpset == FoldUpset \/ Finalize

NextStrength == FoldStrength \/ Finalize

NextCharacter == FoldCharacter \/ Finalize

NextEvents == FoldEvents \/ Finalize

NextTally == FoldTally \/ Finalize

\* Calls on records of the core family.
Spec == Init /\ [][Next]_vars

\* Calls on records of the region family.
SpecRegion == InitDefault /\ [][NextRegion]_vars

\* Calls on records of the identity family.
SpecIdentity == InitDefault /\ [][NextIdentity]_vars

\* Calls on one record of the optional family.
SpecOptional == Init /\ [][NextOptional]_vars

SpecWeight == InitDefault /\ [][NextWeight]_vars

SpecUpset == InitDefault /\ [][NextUpset]_vars

SpecStrength == InitDefault /\ [][NextStrength]_vars

SpecCharacter == InitDefault /\ [][NextCharacter]_vars

SpecEvents == InitDefault /\ [][NextEvents]_vars

SpecTally == InitDefault /\ [][NextTally]_vars

----------------------------------------------------------------------------
(* Properties of the returned table *)

PlayerIds == {player_results[i].player_id : i \in 1..Len(player_results)}

\* The player has a set with a known outcome among the records consumed.
HasKnownSet(pid) ==
    \E i \in 1..Len(player_results) :
        /\ player_results[i].player_id = pid
        /\ \E j \in 1..Len(player_results[i].sets) :
              player_results[i].sets[j].won # None

RowsFor(pid) == {i \in 1..Len(table) : table[i].player_id = pid}

\* C1: in the returned table a player none of whose sets has a known outcome
\* has no row, and every player with at least one known-outcome set has
\* exactly one row.
C1_RowIffKnownSet ==
    pc = "done" =>
        \A pid \in PlayerIds :
            Cardinality(RowsFor(pid)) = IF HasKnownSet(pid) THEN 1 ELSE 0

\* A call returned a table with a row for one player and none for another
\* player, whose only sets have an unknown outcome.
C1_Witness ==
    /\ pc = "done"
    /\ \E p, q \in PlayerIds :
          /\ HasKnownSet(p) /\ RowsFor(p) # {}
          /\ ~HasKnownSet(q) /\ RowsFor(q) = {}
          /\ \E i \in 1..Len(player_results) :
                player_results[i].player_id = q /\ player_results[i].sets # <<>>

InUnit(r) == 0 <= r[1] /\ r[1] <= r[2] /\ r[2] > 0

AbsentOrInUnit(o) == o = None \/ InUnit(Get(o))

\* C2: in every emitted row character_usage_rate is in [0, 1] and each of
\* win_rate, weighted_win_rate, upset_rate and character_win_rate is absent or
\* in [0, 1], for either value of assume_target_main.
C2_RatesInUnitInterval ==
    pc = "done" =>
        \A i \in 1..Len(table) :
            /\ InUnit(table[i].character_usage_rate)
            /\ AbsentOrInUnit(table[i].win_rate)
            /\ AbsentOrInUnit(table[i].weighted_win_rate)
            /\ AbsentOrInUnit(table[i].upset_rate)
            /\ AbsentOrInUnit(table[i].character_win_rate)

\* A returned row with all four optional rates present and a usage rate
\* strictly between 0 and 1.
C2_Witness ==
    /\ pc = "done"
    /\ \E i \in 1..Len(table) :
          /\ table[i].win_rate # None /\ table[i].weighted_win_rate # None
          /\ table[i].upset_rate # None /\ table[i].character_win_rate # None
          /\ table[i].character_usage_rate[1] > 0
          /\ table[i].character_usage_rate[1] < table[i].character_usage_rate[2]

\* The aggregate of the player of a row.
AggOf(pid) == aggregates[AggIndex(aggregates, pid)]

\* C4: turning the aggregates into rows modifies no aggregate, and running the
\* finalizer again on the aggregates as the first run left them yields the
\* same rows.
C4_FinalizerReadsOnly ==
    [][(pc = "fold" /\ pc' = "done") =>
          /\ aggregates' = aggregates
          /\ EmittedRows(aggregates', assume_target_main) = rows']_vars

\* A call returned a row built under the fallback override.
C4_Witness ==
    /\ pc = "done"
    /\ assume_target_main
    /\ \E i \in 1..Len(rows) :
          /\ AggOf(rows[i].player_id).character_sets = 0
          /\ rows[i].character_sets > 0

\* C5: with assume_target_main true and character_sets exactly 0 (sets_played
\* > 0) the row has character_sets = sets_played, character_win_rate =
\* win_rate, character_weighted_win_rate = weighted_win_rate and
\* character_usage_rate = 1; otherwise the four fields are the values of the
\* character-specific counters.
C5_FallbackOverride ==
    pc = "done" =>
        \A i \in 1..Len(table) :
            LET row == table[i]
                agg == AggOf(row.player_id)
            IN  IF assume_target_main /\ agg.character_sets = 0
                THEN /\ agg.sets_played > 0
                     /\ row.character_sets = agg.sets_played
                     /\ row.character_win_rate = row.win_rate
                     /\ row.character_weighted_win_rate = row.weighted_win_rate
                     /\ row.character_usage_rate = <<1, 1>>
                ELSE /\ row.character_sets = agg.character_sets
                     /\ row.character_win_rate =
                            IF agg.character_sets = 0 THEN None
                            ELSE Some(Frac(agg.character_wins, agg.character_sets))
                     /\ row.character_weighted_win_rate =
                            IF agg.character_weight_sum = 0 THEN None
                            ELSE Some(Frac(agg.character_weighted_wins,
                                           agg.character_weight_sum))
                     /\ row.character_usage_rate =
                            Frac(agg.character_sets, agg.sets_played)

\* A table with a row under the override (two sets without the target
\* character, one of them won) and a row of a player who used the character.
C5_Witness ==
    /\ pc = "done"
    /\ assume_target_main
    /\ \E i \in 1..Len(table) :
          /\ AggOf(table[i].player_id).character_sets = 0
          /\ table[i].character_sets = 2
          /\ table[i].character_win_rate = Some(<<1, 2>>)
          /\ table[i].character_usage_rate = <<1, 1>>

\* C8: the table is ordered by weighted_win_rate descending, rows with an
\* absent value after all rows with a present one; the index is 0..n-1; with
\* no qualifying player the table is empty.
C8_SortedDescending ==
    pc = "done" =>
        /\ \A i, j \in 1..Len(table) :
              i < j =>
                 /\ table[i].weighted_win_rate = None => table[j].weighted_win_rate = None
                 /\ (table[i].weighted_win_rate # None /\ table[j].weighted_win_rate # None)
                       => RatLe(Get(table[j].weighted_win_rate),
                                Get(table[i].weighted_win_rate))
        /\ Len(index) = Len(table)
        /\ \A i \in 1..Len(index) : index[i] = i - 1
        /\ (\A pid \in PlayerIds : ~HasKnownSet(pid)) => table = <<>>

\* A table of two rows in which the player folded second comes first, with a
\* strictly greater weighted_win_rate.
C8_Witness ==
    /\ pc = "done"
    /\ Len(table) = 2
    /\ table[1].player_id = aggregates[2].player_id
    /\ RatLt(Get(table[2].weighted_win_rate), Get(table[1].weighted_win_rate))

\* The event weights of the known-outcome sets of a player.
KnownSetWeights(pid) ==
    {EventWeight(Get(player_results[i].event), NowTs) :
        i \in {k \in 1..Len(player_results) :
                 /\ player_results[k].player_id = pid
                 /\ \E j \in 1..Len(player_results[k].sets) :
                       player_results[k].sets[j].won # None}}

\* The fold of the two weighted sums rounds each addition, so the quotient of
\* the sums may differ from wins / sets_played by the accumulated rounding.
\* C10 (as stated): when all known-outcome sets of a player carry the same
\* event weight, the row's weighted_win_rate equals its win_rate.
C10_EqualWeightsCancel ==
    pc = "done" =>
        \A i \in 1..Len(table) :
            Cardinality(KnownSetWeights(table[i].player_id)) = 1 =>
                table[i].weighted_win_rate = table[i].win_rate

\* |a - b| <= b * n / d for the fractions a, b >= 0.
RatWithin(a, b, n, d) ==
    Abs(a[1] * b[2] - b[1] * a[2]) * d <= b[1] * a[2] * n

\* C10: when all known-outcome sets of a player carry the same event weight,
\* win_rate = wins / sets_played, and weighted_win_rate equals it up to the
\* rounding of the two sums: exactly when the player has at most two such sets
\* (a sum of two equal floats is exact), and otherwise within the relative
\* error 4 * sets_played / 2^SignificandBits.
C10_EqualWeightsClose ==
    pc = "done" =>
        \A i \in 1..Len(table) :
            Cardinality(KnownSetWeights(table[i].player_id)) = 1 =>
                /\ table[i].win_rate =
                      Some(Frac(AggOf(table[i].player_id).wins,
                                AggOf(table[i].player_id).sets_played))
                /\ table[i].weighted_win_rate # None
                /\ table[i].sets_played <= 2 =>
                      table[i].weighted_win_rate = table[i].win_rate
                /\ RatWithin(Get(table[i].weighted_win_rate), Get(table[i].win_rate),
                             4 * table[i].sets_played, Pow2(SignificandBits))

\* A player with three sets won and one lost in one event: win_rate is 3/4 and
\* weighted_win_rate another value.
C10_Witness ==
    /\ pc = "done"
    /\ Len(player_results) = 1
    /\ Len(table) = 1
    /\ table[1].sets_played = 4
    /\ table[1].win_rate = Some(<<3, 4>>)
    /\ table[1].weighted_win_rate # Some(<<3, 4>>)

----------------------------------------------------------------------------
(* Order of the records *)

PermsOf(n) == {q \in [1..n -> 1..n] : \A i, j \in 1..n : i # j => q[i] # q[j]}

Permuted(s, q) == [i \in 1..Len(s) |-> s[q[i]]]

RowSet(s) == {s[i] : i \in 1..Len(s)}

\* C3: folding the records of a call in any other order yields the same row
\* for each player, every field included.
C3_OrderIndependent ==
    pc = "done" =>
        \A q \in PermsOf(Len(player_results)) :
            RowSet(EmittedRows(FoldAll(<<>>, Permuted(player_results, q), NowTs,
                                       target_character),
                               assume_target_main))
              = RowSet(table)

----------------------------------------------------------------------------
(* Absent optional data *)

\* C9: a call on a record with any combination of its optional fields absent
\* completes: it never ends in an exception.
C9_NeverRaises == pc # "raised"

----------------------------------------------------------------------------
(* Home region *)

\* The tally key of a tournament region code of the region family, None when
\* the record is not tallied.
RegionKeyOf(addr) ==
    CASE addr = None -> None
      [] addr = Some(GA) -> Some(GA)
      [] addr = Some(<<"f", "l", " ">>) -> Some(FL)
      [] addr = Some(<<" ">>) -> Some(UNKNOWN)

\* Per-region tally of the records consumed for a player, and its total.
Tally(pid, key) ==
    Cardinality({i \in 1..Len(player_results) :
                    /\ player_results[i].player_id = pid
                    /\ RegionKeyOf(Get(player_results[i].tournament).addrState) = Some(key)})

TallyTotal(pid) == Tally(pid, GA) + Tally(pid, FL) + Tally(pid, UNKNOWN)

\* The regions with the highest count.
TopRegions(pid) ==
    {k \in {GA, FL, UNKNOWN} :
        \A o \in {GA, FL, UNKNOWN} : Tally(pid, o) <= Tally(pid, k)}

\* C6: with at least one tallied event, a region is inferred if and only if the
\* region with the highest count is not "UNKNOWN" and its share of all tallied
\* events, "UNKNOWN" included, is strictly greater than 1/2; the confidence is
\* that share.
C6_RegionInference ==
    pc = "done" =>
        \A i \in 1..Len(table) :
            LET pid == table[i].player_id
                total == TallyTotal(pid)
                winners == {k \in TopRegions(pid) :
                               k # UNKNOWN /\ 2 * Tally(pid, k) > total}
            IN  /\ table[i].events_with_known_state = total
                /\ total > 0 =>
                     /\ table[i].inferred_state # None <=> winners # {}
                     /\ \A k \in winners :
                           /\ table[i].inferred_state = Some(k)
                           /\ table[i].inferred_state_confidence =
                                 Some(Frac(Tally(pid, k), total))
                     /\ winners = {} => table[i].inferred_state_confidence = None

\* Tally GA:2, UNKNOWN:1: GA is inferred with confidence 2/3.
C6_Witness ==
    /\ pc = "done"
    /\ Len(table) = 1
    /\ Tally(1000, GA) = 2 /\ Tally(1000, UNKNOWN) = 1 /\ Tally(1000, FL) = 0
    /\ table[1].inferred_state = Some(GA)
    /\ table[1].inferred_state_confidence = Some(<<2, 3>>)

\* The explicit region of a player of the region family: that of the first
\* record seen, " ga" at player level or "fl" at participant level.
ExplicitRegionOf(pid) ==
    LET first == player_results[CHOOSE i \in 1..Len(player_results) :
                     /\ player_results[i].player_id = pid
                     /\ \A j \in 1..(i - 1) : player_results[j].player_id # pid]
    IN  IF first.player_location # None THEN Some(GA)
        ELSE IF first.user_location # None THEN Some(FL)
             ELSE None

\* C7: home_state is the explicit normalised profile region if present, else the
\* inferred region, else absent; home_state_inferred is true exactly when the
\* explicit region is absent and a region is inferred; home_state_confidence is
\* the inferred confidence when home_state_inferred, 1.0 when an explicit
\* region is present, absent otherwise.
C7_HomeRegionFields ==
    pc = "done" =>
        \A i \in 1..Len(table) :
            LET row == table[i]
                explicit == ExplicitRegionOf(row.player_id)
            IN  /\ row.state = explicit
                /\ row.home_state =
                      IF explicit # None THEN explicit ELSE row.inferred_state
                /\ row.home_state_inferred =
                      (explicit = None /\ row.inferred_state # None)
                /\ row.home_state_confidence =
                      IF row.home_state_inferred THEN row.inferred_state_confidence
                      ELSE IF explicit # None THEN Some(<<1, 1>>) ELSE None

\* A row with an explicit region FL (from the participant-level location) and
\* an inferred region GA: home_state is FL with confidence 1, not inferred.
C7_Witness ==
    /\ pc = "done"
    /\ Len(table) = 1
    /\ table[1].state = Some(FL)
    /\ table[1].inferred_state = Some(GA)
    /\ table[1].home_state = Some(FL)
    /\ ~table[1].home_state_inferred
    /\ table[1].home_state_confidence = Some(<<1, 1>>)

----------------------------------------------------------------------------
(* _event_weight called on its own *)

\* Entrant counts 0..MaxEntrants, and start times up to MaxAgeSteps steps of
\* AgeStepDays days before the clock reading.
MaxEntrants == 9

MaxAgeSteps == 10

AgeStepDays == 30

\* The events weighed: the entrant count absent or 0..MaxEntrants; the start
\* time absent, 0, one second after the epoch, in the past by whole steps, or
\* one step in the future.
WeighEvents(now_ts) ==
    {[numEntrants |-> ne, startAt |-> st] :
        ne \in {None} \cup {Some(n) : n \in 0..MaxEntrants},
        st \in {None, Some(0), Some(1)}
               \cup {Some(now_ts - Days(AgeStepDays * k)) : k \in (-1)..MaxAgeSteps}}

WeighInit ==
    /\ NotWeighIdle
    /\ weigh_now \in {NowTs, NowTs + Days(1)}
    /\ weigh_event \in {Some(e) : e \in WeighEvents(weigh_now)}
    /\ weigh_out = None

\* The call returns.
Weigh ==
    /\ weigh_out = None
    /\ weigh_out' = Some(EventWeight(Get(weigh_event), weigh_now))
    /\ UNCHANGED <<weigh_event, weigh_now>>
    /\ UNCHANGED notWeighVars

NextWeigh == Weigh

SpecWeigh == WeighInit /\ [][NextWeigh]_vars

\* The entrant count of an event, 0 when absent.
EntrantsOf(e) == IF e.numEntrants = None THEN 0 ELSE Get(e.numEntrants)

\* The age in seconds of an event that has a start time: the time from its
\* start to the clock reading, 0 for a start in the future.
AgeOf(e, now_ts) ==
    IF now_ts - Get(e.startAt) > 0 THEN now_ts - Get(e.startAt) ELSE 0

\* C11: _event_weight returns at least 0.1, and max(0.1, size_weight *
\* recency_weight) with size_weight = log2(entrants + 1), replaced by 1.0 only
\* when the entrant count is absent or 0 (the logarithm is exactly 0), and the
\* recency of an event without start time or with a start in the future is 1.
C11_WeightFloor ==
    weigh_out # None =>
        LET e == Get(weigh_event)
            n == EntrantsOf(e)
            size_weight == IF n = 0 THEN 1000 ELSE Log2Milli(n + 1)
            days == IF e.startAt \in {None, Some(0)} THEN 0
                    ELSE AgeOf(e, weigh_now) \div SecondsPerDay
            product == (size_weight * RecencyQ15(days)) \div 32768
        IN  /\ Get(weigh_out) >= MinWeightMilli
            /\ n > 0 => size_weight > 0
            /\ Get(weigh_out) =
                  RoundFloat(IF product > MinWeightMilli THEN product
                             ELSE MinWeightMilli)

\* An event without entrant count that started one second after the epoch
\* weighs exactly 0.1.
C11_Witness ==
    /\ weigh_event = Some([numEntrants |-> None, startAt |-> Some(1)])
    /\ weigh_out = Some(MinWeightMilli)

\* C12: at a fixed start time the weight is non-decreasing in the entrant
\* count, and at a fixed entrant count it is non-increasing in the age of the
\* event, over the events that have a start time.
C12_WeightMonotone ==
    weigh_out # None =>
        \A e2 \in WeighEvents(weigh_now) :
            LET e == Get(weigh_event)
                w2 == EventWeight(e2, weigh_now)
            IN  /\ (e2.startAt = e.startAt /\ EntrantsOf(e2) >= EntrantsOf(e))
                      => w2 >= Get(weigh_out)
                /\ (/\ e.startAt # None /\ e2.startAt # None
                    /\ EntrantsOf(e2) = EntrantsOf(e)
                    /\ AgeOf(e2, weigh_now) >= AgeOf(e, weigh_now))
                      => w2 <= Get(weigh_out)

----------------------------------------------------------------------------
(* Sets of unknown outcome, and upsets *)

\* The counters of an aggregate that the loop over the sets updates.
PerSetCounters(agg) ==
    <<agg.sets_played, agg.wins, agg.weighted_wins, agg.weight_sum,
      agg.opponent_strength_values, agg.sets_vs_higher_seed,
      agg.wins_vs_higher_seed, agg.character_sets, agg.character_wins,
      agg.character_weighted_wins, agg.character_weight_sum>>

\* A record without its sets of unknown outcome.
RECURSIVE KnownSets(_)
KnownSets(sets) ==
    IF sets = <<>> THEN <<>>
    ELSE IF Head(sets).won = None THEN KnownSets(Tail(sets))
         ELSE <<Head(sets)>> \o KnownSets(Tail(sets))

DropUnknownSets(result) == [result EXCEPT !.sets = KnownSets(@)]

\* C19: a set of unknown outcome changes no per-set counter: folding a record
\* leaves the counters of its player's aggregate as folding the record
\* without its sets of unknown outcome does, and a record that holds only such
\* sets leaves them as they were.
C19_UnknownOutcomeNoEffect ==
    [][(pc = "fold" /\ pc' = "fold" /\ Len(player_results') = Len(player_results) + 1) =>
          LET result == player_results'[Len(player_results')]
              k == AggIndex(aggregates', result.player_id)
              without == FoldRecord(aggregates, DropUnknownSets(result), NowTs,
                                    target_character)
          IN  /\ PerSetCounters(aggregates'[k]) = PerSetCounters(without[k])
              /\ (KnownSets(result.sets) = <<>> /\ k <= Len(aggregates)) =>
                    PerSetCounters(aggregates'[k]) = PerSetCounters(aggregates[k])]_vars

\* The second record of a player seeded 2 held one set of unknown outcome
\* against seed 1 with the target character, after a first record with a set
\* won: the counters still show that one set only.
C19_Witness ==
    /\ pc = "fold"
    /\ Len(player_results) = 2
    /\ player_results[2].seed_num = Some(2)
    /\ player_results[2].sets = <<SetRecord(None, Some(1), None, Some(<<MARTH>>))>>
    /\ Len(aggregates) = 1
    /\ aggregates[1].events_played = 2
    /\ aggregates[1].sets_played = 1
    /\ aggregates[1].wins = 1
    /\ aggregates[1].sets_vs_higher_seed = 0
    /\ aggregates[1].character_sets = 1

\* The known-outcome sets of a player against a higher seed, as <<record, set>>
\* positions in the records consumed.
HigherSeedSets(pid) ==
    {ij \in (1..Len(player_results)) \X (1..MaxUpsetSets + 1) :
        /\ player_results[ij[1]].player_id = pid
        /\ ij[2] <= Len(player_results[ij[1]].sets)
        /\ LET result == player_results[ij[1]]
               set_record == result.sets[ij[2]]
           IN  /\ set_record.won # None
               /\ set_record.opponent_seed # None
               /\ result.seed_num # None
               /\ Get(set_record.opponent_seed) < Get(result.seed_num)}

HigherSeedWins(pid) ==
    {ij \in HigherSeedSets(pid) : player_results[ij[1]].sets[ij[2]].won = Some(TRUE)}

\* C20: sets_vs_higher_seed counts the known-outcome sets with both seeds known
\* and opponent seed < player seed, wins_vs_higher_seed those of them that were
\* won; upset_rate is their quotient, absent when sets_vs_higher_seed is 0.
C20_UpsetCounting ==
    /\ \A k \in 1..Len(aggregates) :
          /\ aggregates[k].sets_vs_higher_seed =
                Cardinality(HigherSeedSets(aggregates[k].player_id))
          /\ aggregates[k].wins_vs_higher_seed =
                Cardinality(HigherSeedWins(aggregates[k].player_id))
    /\ pc = "done" =>
          \A i \in 1..Len(table) :
              LET sets == Cardinality(HigherSeedSets(table[i].player_id))
                  wins == Cardinality(HigherSeedWins(table[i].player_id))
              IN  table[i].upset_rate =
                     IF sets = 0 THEN None ELSE Some(Frac(wins, sets))

\* A row of a player seeded 2 with a set won against seed 1 and a set lost
\* against seed 2: one set against a higher seed, upset_rate 1.
C20_Witness ==
    /\ pc = "done"
    /\ Len(table) = 1
    /\ table[1].sets_played = 2
    /\ table[1].win_rate = Some(<<1, 2>>)
    /\ table[1].upset_rate = Some(<<1, 1>>)
    /\ \E i \in 1..Len(player_results) : \E j \in 1..Len(player_results[i].sets) :
          /\ player_results[i].seed_num = Some(2)
          /\ player_results[i].sets[j].opponent_seed = Some(2)
          /\ player_results[i].sets[j].won = Some(FALSE)

----------------------------------------------------------------------------
(* build_player_event_results (src/smash_data.py) *)

\* An entrant node: its id and the player ids of its participants, in order.
\* A participant without player, or whose player has no id, is None.
Entrant(id, participants) == [id |-> id, participants |-> participants]

\* The entrants of the bundles: player 100 under two entrant ids, player 200,
\* and two teams, one of them with player 100.
BuildEntrants ==
    {Entrant("e1", <<Some(100)>>), Entrant("e2", <<Some(100)>>),
     Entrant("e3", <<Some(200)>>), Entrant("t1", <<Some(100), Some(300)>>),
     Entrant("t2", <<Some(200), Some(400)>>)}

\* At most MaxBundleItems seeds, standings and sets in a bundle, at most
\* MaxBundleSets of them sets.
MaxBundleItems == 3

MaxBundleSets == 2

\* The set nodes: one or two slots, the winner unknown or the entrant of the
\* first slot; no games are reported.
BundleSetNodes ==
    {[slots |-> sw[1], winnerId |-> sw[2]] :
        sw \in {<<ss, w>> \in
                  ({<<a>> : a \in BuildEntrants}
                   \cup {<<a, b>> : a \in BuildEntrants, b \in BuildEntrants})
                  \X ({None} \cup {Some(e.id) : e \in BuildEntrants}) :
                  w = None \/ w = Some(ss[1].id)}}

\* player_ids of a slot: the ids of the participants that have one.
RECURSIVE TruthyIds(_)
TruthyIds(participants) ==
    IF participants = <<>> THEN <<>>
    ELSE IF TruthyInt(Head(participants))
         THEN <<Get(Head(participants))>> \o TruthyIds(Tail(participants))
         ELSE TruthyIds(Tail(participants))

\* Lines 334-345 and 351-363: the registration of the single participant of a
\* seed's or standing's entrant, in one of the two maps.
RegisterSingle(map, entrant) ==
    IF Len(entrant.participants) = 1 /\ TruthyInt(entrant.participants[1])
    THEN DictSet(map, entrant.id, Get(entrant.participants[1]))
    ELSE map

\* Lines 374-391: the registration, while a set's slots are read, of the
\* participants that have a player id, under an entrant id not registered yet.
RECURSIVE RegisterSlots(_, _)
RegisterSlots(map, slots) ==
    IF slots = <<>> THEN map
    ELSE LET entrant == Head(slots)
             player_ids == TruthyIds(entrant.participants)
             next == IF player_ids # <<>> /\ ~DictHas(map, entrant.id)
                     THEN DictSet(map, entrant.id, Head(player_ids))
                     ELSE map
         IN  RegisterSlots(next, Tail(slots))

\* Lines 406-411: the first other slot that has a player id, as an index, 0
\* when there is none.
OpponentOf(slots, i) ==
    LET others == {j \in 1..Len(slots) :
                      j # i /\ TruthyIds(slots[j].participants) # <<>>}
    IN  IF others = {} THEN 0 ELSE CHOOSE j \in others : \A o \in others : j <= o

\* Lines 400-434: the SetRecords of one set node, slot by slot, appended to
\* sets_by_player.
RECURSIVE AttributeSlots(_, _, _, _, _)
AttributeSlots(by_player, set_node, i, seeds, standings) ==
    IF i > Len(set_node.slots) THEN by_player
    ELSE LET slot == set_node.slots[i]
             player_ids == TruthyIds(slot.participants)
             j == OpponentOf(set_node.slots, i)
         IN  IF Len(player_ids) # 1 \/ j = 0
             THEN AttributeSlots(by_player, set_node, i + 1, seeds, standings)
             ELSE LET opponent == set_node.slots[j]
                      won == IF set_node.winnerId = None THEN None
                             ELSE Some(Get(set_node.winnerId) = slot.id)
                      set_record == SetRecord(won, DictGet(seeds, opponent.id, None),
                                              DictGet(standings, opponent.id, None),
                                              Some(<<>>))
                      player_id == player_ids[1]
                  IN  AttributeSlots(
                          DictSet(by_player, player_id,
                                  Append(DictGet(by_player, player_id, <<>>), set_record)),
                          set_node, i + 1, seeds, standings)

\* Lines 436-462: the results, one per entry of player_info_by_entrant that has
\* a set or a seed.
RECURSIVE BuildResultsFrom(_, _, _, _)
BuildResultsFrom(info, seeds, standings, by_player) ==
    IF info = <<>> THEN <<>>
    ELSE LET entrant_id == Head(info)[1]
             player_id == Head(info)[2]
             rest == BuildResultsFrom(Tail(info), seeds, standings, by_player)
         IN  IF DictGet(by_player, player_id, <<>>) = <<>> /\ ~DictHas(seeds, entrant_id)
             THEN rest
             ELSE <<[player_id |-> player_id, entrant_id |-> entrant_id,
                     seed_num |-> DictGet(seeds, entrant_id, None),
                     placement |-> DictGet(standings, entrant_id, None),
                     sets |-> DictGet(by_player, player_id, <<>>)]>> \o rest

BundleItems == Len(bundle.seeds) + Len(bundle.standings) + Len(bundle.sets)

BuildInit ==
    /\ NotBuildIdle
    /\ bundle = [seeds |-> <<>>, standings |-> <<>>, sets |-> <<>>]
    /\ seeds_map = <<>>
    /\ standings_map = <<>>
    /\ entrant_participant_map = <<>>
    /\ player_info_by_entrant = <<>>
    /\ sets_by_player = <<>>
    /\ build_results = <<>>
    /\ build_pc = "seeds"

\* One iteration of "for seed in bundle.seeds".
ReadSeed ==
    /\ build_pc = "seeds"
    /\ BundleItems < MaxBundleItems
    /\ \E entrant \in BuildEntrants :
          LET seed == [entrant |-> entrant, seedNum |-> Some(Len(bundle.seeds) + 1)]
          IN  /\ bundle' = [bundle EXCEPT !.seeds = Append(@, seed)]
              /\ seeds_map' = DictSet(seeds_map, entrant.id, seed.seedNum)
              /\ player_info_by_entrant' = RegisterSingle(player_info_by_entrant, entrant)
              /\ entrant_participant_map' = RegisterSingle(entrant_participant_map, entrant)
    /\ UNCHANGED <<standings_map, sets_by_player, build_results, build_pc>>
    /\ UNCHANGED notBuildVars

\* One iteration of "for standing in bundle.standings".
ReadStanding ==
    /\ build_pc \in {"seeds", "standings"}
    /\ BundleItems < MaxBundleItems
    /\ \E entrant \in BuildEntrants :
          LET standing == [entrant |-> entrant,
                           placement |-> Some(Len(bundle.standings) + 1)]
          IN  /\ bundle' = [bundle EXCEPT !.standings = Append(@, standing)]
              /\ standings_map' = DictSet(standings_map, entrant.id, standing.placement)
              /\ IF ~DictHas(entrant_participant_map, entrant.id)
                 THEN /\ player_info_by_entrant' =
                            RegisterSingle(player_info_by_entrant, entrant)
                      /\ entrant_participant_map' =
                            RegisterSingle(entrant_participant_map, entrant)
                 ELSE UNCHANGED <<player_info_by_entrant, entrant_participant_map>>
    /\ build_pc' = "standings"
    /\ UNCHANGED <<seeds_map, sets_by_player, build_results>>
    /\ UNCHANGED notBuildVars

\* One iteration of "for set_node in bundle.sets".
ReadSet ==
    /\ build_pc \in {"seeds", "standings", "sets"}
    /\ BundleItems < MaxBundleItems
    /\ Len(bundle.sets) < MaxBundleSets
    /\ \E set_node \in BundleSetNodes :
          /\ bundle' = [bundle EXCEPT !.sets = Append(@, set_node)]
          /\ IF Len(set_node.slots) < 2
             THEN UNCHANGED <<player_info_by_entrant, entrant_participant_map,
                              sets_by_player>>
             ELSE /\ player_info_by_entrant' =
                        RegisterSlots(player_info_by_entrant, set_node.slots)
                  /\ entrant_participant_map' =
                        RegisterSlots(entrant_participant_map, set_node.slots)
                  /\ sets_by_player' =
                        AttributeSlots(sets_by_player, set_node, 1, seeds_map,
                                       standings_map)
    /\ build_pc' = "sets"
    /\ UNCHANGED <<seeds_map, standings_map, build_results>>
    /\ UNCHANGED notBuildVars

\* The loop over player_info_by_entrant, and the return.
BuildResults ==
    /\ build_pc \in {"seeds", "standings", "sets"}
    /\ build_results' = BuildResultsFrom(player_info_by_entrant, seeds_map,
                                         standings_map, sets_by_player)
    /\ build_pc' = "done"
    /\ UNCHANGED <<bundle, seeds_map, standings_map, entrant_participant_map,
                   player_info_by_entrant, sets_by_player>>
    /\ UNCHANGED notBuildVars

NextBuild == ReadSeed \/ ReadStanding \/ ReadSet \/ BuildResults

SpecBuild == BuildInit /\ [][NextBuild]_vars

\* The entrant of the bundles that has the given id.
EntrantById(id) == CHOOSE e \in BuildEntrants : e.id = id

\* The slots of the sets read that yield a SetRecord for a player: those with
\* exactly one player id, the given one, in a set with two slots and an
\* opponent.
SingleSlotsOf(player_id) ==
    {ki \in (1..Len(bundle.sets)) \X (1..2) :
        /\ Len(bundle.sets[ki[1]].slots) = 2
        /\ TruthyIds(bundle.sets[ki[1]].slots[ki[2]].participants) = <<player_id>>
        /\ OpponentOf(bundle.sets[ki[1]].slots, ki[2]) # 0}

\* C13: the list returned holds at most one PlayerEventResult per player id.
C13_OneResultPerPlayer ==
    build_pc = "done" =>
        \A i, j \in 1..Len(build_results) :
            i # j => build_results[i].player_id # build_results[j].player_id

\* C14: no PlayerEventResult is returned for an entrant with more than one
\* participant, and a player's sets are exactly those of the slots that hold
\* that player alone.
C14_TeamsIgnored ==
    build_pc = "done" =>
        /\ \A i \in 1..Len(build_results) :
              Len(EntrantById(build_results[i].entrant_id).participants) <= 1
        /\ \A k \in 1..Len(sets_by_player) :
              Len(sets_by_player[k][2]) =
                 Cardinality(SingleSlotsOf(sets_by_player[k][1]))

----------------------------------------------------------------------------
(* smashcc.analysis.generate_character_report *)

\* The text of a column suffix, one character per element.
SetsSuffix == <<"_", "s", "e", "t", "s">>

WinRateSuffix == <<"_", "w", "i", "n", "_", "r", "a", "t", "e">>

WeightedWinRateSuffix ==
    <<"_", "w", "e", "i", "g", "h", "t", "e", "d">> \o WinRateSuffix

UsageRateSuffix == <<"_", "u", "s", "a", "g", "e", "_", "r", "a", "t", "e">>

\* Lines 104-112: the columns argument of rename, f"{character}_sets" and so on.
RenamedColumns(name) ==
    <<<<"character_sets", name \o SetsSuffix>>,
      <<"character_win_rate", name \o WinRateSuffix>>,
      <<"character_weighted_win_rate", name \o WeightedWinRateSuffix>>,
      <<"character_usage_rate", name \o UsageRateSuffix>>>>

\* Line 91: character or "Marth"; None and the empty string are falsy.
TargetOf(name) ==
    IF name = None \/ Get(name) = <<>> THEN Marth ELSE Get(name)

\* Line 100: the positions of the rows with character_usage_rate > 0.
Mask(df) == {i \in 1..Len(df) : RatLt(<<0, 1>>, df[i].character_usage_rate)}

\* df[mask]: the rows at the positions of mask, in order.
RECURSIVE Take(_, _, _)
Take(df, mask, i) ==
    IF i > Len(df) THEN <<>>
    ELSE (IF i \in mask THEN <<df[i]>> ELSE <<>>) \o Take(df, mask, i + 1)

\* The names a report is asked for: none, a character with sets in the data,
\* the same character in the data's spelling, the empty string.
ReportCharacters == {None, Some(Marth), Some(Fox), Some(<<>>)}

\* Lines 76-97: the call, which starts generate_player_metrics on the records
\* of the pipeline with target_character = character or "Marth".
ReportInit ==
    /\ WeighIdle /\ BuildIdle /\ LegacyIdle /\ ClientIdle /\ IterIdle
    /\ PaginateIdle
    /\ character \in ReportCharacters
    /\ filtered = <<>>
    /\ filtered_index = <<>>
    /\ renamed = <<>>
    /\ report_pc = "called"
    /\ player_results = <<>>
    /\ target_character = TargetOf(character)
    /\ assume_target_main \in BOOLEAN
    /\ idx = 0
    /\ aggregates = <<>>
    /\ rows = <<>>
    /\ table = <<>>
    /\ index = <<>>
    /\ pc = "fold"

\* Lines 98-114: what generate_character_report does with the metrics table.
CharacterReport ==
    /\ report_pc = "called"
    /\ pc = "done"
    /\ IF table = <<>> \/ character = None
       THEN /\ filtered' = table
            /\ filtered_index' = index
            /\ renamed' = <<>>
       ELSE /\ filtered' = Take(table, Mask(table), 1)
            /\ filtered_index' = ResetIndex(Take(table, Mask(table), 1))
            /\ renamed' = RenamedColumns(Get(character))
    /\ report_pc' = "returned"
    /\ UNCHANGED <<character, notReportVars>>

NextReport == FoldCore \/ Finalize \/ CharacterReport

\* A report over the core family, for every name and either value of
\* assume_target_main.
SpecReport == ReportInit /\ [][NextReport]_vars

\* The player of a row logged a known-outcome set whose character list
\* contains the name.
LoggedCharacter(player_id, name) ==
    \E k \in 1..Len(player_results) :
        /\ player_results[k].player_id = player_id
        /\ \E j \in 1..Len(player_results[k].sets) :
              LET set_record == player_results[k].sets[j]
              IN  /\ set_record.won # None
                  /\ UsesTargetCharacter(set_record, name)

\* C15: called with a character, the report only keeps players who logged
\* sets with it: every row of the result is a player with at least one
\* known-outcome set whose character list contains the character, for either
\* value of assume_target_main.  The empty string names no character.
C15_OnlyCharacterPlayers ==
    (report_pc = "returned" /\ character \notin {None, Some(<<>>)}) =>
        \A i \in 1..Len(filtered) :
            LoggedCharacter(filtered[i].player_id, Get(character))

----------------------------------------------------------------------------
(* smash_analysis: the legacy report over raw API payloads *)

\* compute_win_rate, lines 10-15; 0.0 is the fraction 0/1.
ComputeWinRate(sets, player_id) ==
    IF sets = <<>> THEN <<0, 1>>
    ELSE LET wins == {i \in 1..Len(sets) : sets[i].winnerId = Some(player_id)}
         IN  Frac(Cardinality(wins), Len(sets))

\* Lines 26-34: the ids of the entrants of a set that hold the player.
PlayerEntrantIds(slots, player_id) ==
    {slots[i].id : i \in {j \in 1..Len(slots) :
        /\ \E k \in 1..Len(slots[j].players) : slots[j].players[k] = player_id
        /\ slots[j].id # 0}}

\* str(selection_value) for the character ids of the lookup.
Str(n) == CASE n = 1 -> "1" [] n = 2 -> "2" [] OTHER -> "0"

\* sa.get_character_map: dict str(id) -> name.
CharacterLookup == <<<<"1", Marth>>, <<"2", Fox>>>>

CharacterType == <<"C", "H", "A", "R", "A", "C", "T", "E", "R">>

\* Lines 39-58: one selection.  A name is falsy when absent or empty.
CountSelection(char_counts, sel, player_entrant_ids, character_lookup) ==
    LET selection_type == IF sel.selectionType = None THEN <<>>
                          ELSE Upper(Get(sel.selectionType))
        named == IF sel.character # None THEN Get(sel.character) ELSE <<>>
        looked == IF sel.selectionValue # None
                  THEN DictGet(character_lookup, Str(Get(sel.selectionValue)), <<>>)
                  ELSE <<>>
        char == IF named = <<>> /\ character_lookup # <<>> THEN looked ELSE named
    IN  IF selection_type # <<>> /\ selection_type # CharacterType
        THEN char_counts
        ELSE IF sel.entrant = None \/ Get(sel.entrant) \notin player_entrant_ids
             THEN char_counts
             ELSE IF char # <<>>
                  THEN DictSet(char_counts, char, DictGet(char_counts, char, 0) + 1)
                  ELSE char_counts

RECURSIVE CountSelections(_, _, _, _)
CountSelections(char_counts, selections, player_entrant_ids, character_lookup) ==
    IF selections = <<>> THEN char_counts
    ELSE CountSelections(
             CountSelection(char_counts, Head(selections), player_entrant_ids,
                            character_lookup),
             Tail(selections), player_entrant_ids, character_lookup)

RECURSIVE CountGames(_, _, _, _)
CountGames(char_counts, games, player_entrant_ids, character_lookup) ==
    IF games = <<>> THEN char_counts
    ELSE CountGames(
             CountSelections(char_counts, Head(games), player_entrant_ids,
                             character_lookup),
             Tail(games), player_entrant_ids, character_lookup)

\* Lines 25-58: the loop over the sets.
RECURSIVE CountSetsSelections(_, _, _, _)
CountSetsSelections(char_counts, sets, player_id, character_lookup) ==
    IF sets = <<>> THEN char_counts
    ELSE LET s == Head(sets)
             player_entrant_ids == PlayerEntrantIds(s.slots, player_id)
         IN  CountSetsSelections(
                 IF player_entrant_ids = {} THEN char_counts
                 ELSE CountGames(char_counts, s.games, player_entrant_ids,
                                 character_lookup),
                 Tail(sets), player_id, character_lookup)

\* max(char_counts, key=char_counts.get): the first key, in insertion order,
\* with the largest count.
MaxKey(char_counts) ==
    LET best == CHOOSE i \in 1..Len(char_counts) :
                    /\ \A j \in 1..Len(char_counts) : char_counts[j][2] <= char_counts[i][2]
                    /\ \A j \in 1..(i - 1) : char_counts[j][2] < char_counts[i][2]
    IN  char_counts[best][1]

\* extract_main_character, lines 18-61: None or the name.
ExtractMainCharacter(sets, player_id, character_lookup) ==
    LET char_counts == CountSetsSelections(<<>>, sets, player_id, character_lookup)
    IN  IF char_counts = <<>> THEN None ELSE Some(MaxKey(char_counts))

\* Line 99: the Region expression raises AttributeError when the user dict
\* holds "location": None, since .get("location", {}) then returns None.
RegionRaises(player) ==
    player.user # None /\ Get(player.user).location = None

Region(player) ==
    IF player.user = None THEN None
    ELSE Get(Get(player.user).location).state

\* Lines 86-106: the row of a record.
LegacyRow(record, main_char, matches_filter) ==
    [Player |-> record.player.gamerTag,
     Region |-> Region(record.player),
     Main |-> main_char,
     WinRate |-> ComputeWinRate(record.sets, record.player.id),
     SetsAnalyzed |-> Len(record.sets),
     MatchesFilter |-> matches_filter,
     Tournament |-> record.tournament,
     Event |-> record.event]

\* Lines 93-94.
MatchesFilter(main_char, name) ==
    LET normalized_target == IF name = None THEN None ELSE Some(Lower(Get(name)))
        normalized_main == IF main_char = None THEN None
                           ELSE Some(Lower(Get(main_char)))
    IN  normalized_target = None \/ normalized_main = normalized_target

\* The sets of a player's record, at most MaxLegacySets each, and the
\* records read in a call, at most MaxLegacyRecords.
MaxLegacySets == 2

MaxLegacyRecords == 2

\* Every set is entrant 100 (player 1000) against entrant 200 (player 2000).
LegacySlots == <<[id |-> 100, players |-> <<1000>>], [id |-> 200, players |-> <<2000>>]>>

Selection(type, entrant, name, value) ==
    [selectionType |-> type, entrant |-> entrant, character |-> name,
     selectionValue |-> value]

\* A Marth pick, a Fox pick, a pick of the opponent's, a selection of another
\* type, a pick given by its id only, all in one game, and a set without games.
MarthPick == <<<<Selection(Some(CharacterType), Some(100), Some(Marth), Some(1))>>>>

FoxPick == <<<<Selection(Some(CharacterType), Some(100), Some(Fox), Some(2))>>>>

OpponentPick == <<<<Selection(Some(CharacterType), Some(200), Some(Marth), Some(1))>>>>

StagePick == <<<<Selection(Some(<<"S", "T", "A", "G", "E">>), Some(100), Some(Marth), Some(1))>>>>

IdPick == <<<<Selection(None, Some(100), None, Some(2))>>>>

LegacySet(winnerId, games) ==
    [winnerId |-> winnerId, slots |-> LegacySlots, games |-> games]

\* The winnerId of a set is absent or the id the report compares with the
\* player id.
LegacySets ==
    {LegacySet(Some(1000), MarthPick), LegacySet(Some(2000), FoxPick),
     LegacySet(None, OpponentPick), LegacySet(Some(1000), StagePick),
     LegacySet(Some(2000), IdPick), LegacySet(Some(1000), <<>>)}

\* A player payload: user absent, user with "location": None, user with a
\* location in GA.
LegacyUsers == {None, Some([location |-> None]),
                Some([location |-> Some([state |-> Some(GA)])])}

LegacyRecords ==
    {[tournament |-> Some("T1"), event |-> Some("E1"),
      player |-> [id |-> p, gamerTag |-> Some("Alice"), user |-> u],
      sets |-> ss] :
        p \in {1000, 2000}, u \in LegacyUsers,
        ss \in UNION {[1..n -> LegacySets] : n \in 0..MaxLegacySets}}

\* Lines 74-83: the call; the filter is absent or "marth".
LegacyInit ==
    /\ NotLegacyIdle
    /\ legacy_character \in {None, Some(Lower(Marth))}
    /\ include_without_character \in BOOLEAN
    /\ records = <<>>
    /\ legacy_rows = <<>>
    /\ legacy_pc = "loop"

\* Lines 85-106: one iteration of the loop over the records.
LegacyRecord ==
    /\ legacy_pc = "loop"
    /\ Len(records) < MaxLegacyRecords
    /\ \E record \in LegacyRecords :
          LET player_id == record.player.id
              main_char == ExtractMainCharacter(record.sets, player_id, CharacterLookup)
              matches_filter == MatchesFilter(main_char, legacy_character)
          IN  /\ records' = Append(records, record)
              /\ IF player_id = 0
                 THEN UNCHANGED <<legacy_rows, legacy_pc>>
                 ELSE IF matches_filter \/ include_without_character
                      THEN IF RegionRaises(record.player)
                           THEN /\ legacy_pc' = "raised"
                                /\ UNCHANGED legacy_rows
                           ELSE /\ legacy_rows' = Append(legacy_rows,
                                       LegacyRow(record, main_char, matches_filter))
                                /\ UNCHANGED legacy_pc
                      ELSE UNCHANGED <<legacy_rows, legacy_pc>>
    /\ UNCHANGED <<legacy_character, include_without_character, notLegacyVars>>

\* Line 107: the records are exhausted and the rows are returned.
LegacyReturn ==
    /\ legacy_pc = "loop"
    /\ legacy_pc' = "done"
    /\ UNCHANGED <<legacy_character, include_without_character, records,
                   legacy_rows, notLegacyVars>>

NextLegacy == LegacyRecord \/ LegacyReturn

SpecLegacy == LegacyInit /\ [][NextLegacy]_vars

\* The record's most frequently selected character is the requested one,
\* compared case-insensitively.
MainIs(record) ==
    LET main_char == ExtractMainCharacter(record.sets, record.player.id, CharacterLookup)
    IN  main_char # None /\ Lower(Get(main_char)) = Lower(Get(legacy_character))

\* The sets of a record whose winnerId equals the player id.
WonSets(record) ==
    {i \in 1..Len(record.sets) : record.sets[i].winnerId = Some(record.player.id)}

\* C16: with a character filter and include_without_character false, the
\* legacy report returns one row per fetched player record whose most
\* frequently selected character equals the requested character
\* case-insensitively, and no other rows; in each row SetsAnalyzed is the
\* number of sets fetched for the player and WinRate is the fraction of those
\* sets whose winnerId equals the player id (0.0 when there are no sets).
C16_LegacyRows ==
    (legacy_character # None /\ ~include_without_character /\ legacy_pc # "idle") =>
        LET matching == SelectSeq(records, MainIs)
        IN  /\ legacy_pc # "raised"
            /\ Len(legacy_rows) = Len(matching)
            /\ \A i \in 1..Len(matching) :
                  /\ legacy_rows[i].Player = matching[i].player.gamerTag
                  /\ legacy_rows[i].SetsAnalyzed = Len(matching[i].sets)
                  /\ legacy_rows[i].WinRate =
                        IF matching[i].sets = <<>> THEN <<0, 1>>
                        ELSE Frac(Cardinality(WonSets(matching[i])),
                                  Len(matching[i].sets))

----------------------------------------------------------------------------
(* StartGGClient.execute: the on-disk cache and the rate-limit retry *)

\* A variables dict is a sequence of <<name, JSON text of the value>> in
\* insertion order; a JSON text is a sequence of tokens.

\* The position of a name in sorted order (sort_keys=True).
KeyRank(name) ==
    CASE name = "page" -> 1 [] name = "perPage" -> 2 [] name = "state" -> 3
      [] OTHER -> 4

\* The items of a dict sorted by name.
SortedItems(d) ==
    LET at(r) == CHOOSE i \in 1..Len(d) :
                     Cardinality({j \in 1..Len(d) : KeyRank(d[j][1]) < KeyRank(d[i][1])}) = r - 1
    IN  [r \in 1..Len(d) |-> d[at(r)]]

\* json.dumps(variables, sort_keys=True, separators=(",", ":")) of a non-empty
\* dict.
RECURSIVE DumpItems(_)
DumpItems(items) ==
    IF items = <<>> THEN <<>>
    ELSE <<"\"", Head(items)[1], "\"", ":", Head(items)[2]>>
         \o (IF Tail(items) = <<>> THEN <<>> ELSE <<",">>)
         \o DumpItems(Tail(items))

Normalized(d) == <<"{">> \o DumpItems(SortedItems(d)) \o <<"}">>

\* _make_cache_key, lines 34-44: the digest of the query text followed, when
\* variables is truthy, by its normalized JSON text.  The digest is taken as
\* injective, so the key is the text digested.
MakeCacheKey(query, variables) ==
    IF variables = None \/ Get(variables) = <<>>
    THEN query
    ELSE query \o Normalized(Get(variables))

\* Lines 117-119: the cache file is written only when caching is enabled.
StoreAlways(files, enabled, cache_key, data) == DictSet(files, cache_key, data)

Store(files, enabled, cache_key, data) ==
    IF enabled THEN DictSet(files, cache_key, data) ELSE files

\* The value of a decimal digit.
Digit(c) ==
    CASE c = "0" -> 0 [] c = "1" -> 1 [] c = "2" -> 2 [] c = "3" -> 3
      [] c = "4" -> 4 [] c = "5" -> 5 [] c = "6" -> 6 [] c = "7" -> 7
      [] c = "8" -> 8 [] c = "9" -> 9 [] OTHER -> -1

RECURSIVE DigitsValue(_, _)
DigitsValue(text, acc) ==
    IF text = <<>> THEN acc
    ELSE DigitsValue(Tail(text), 10 * acc + Digit(Head(text)))

\* float(text) succeeds: text is a run of digits, with or without a minus
\* sign before it.
IsNumber(text) ==
    LET digits == IF text # <<>> /\ Head(text) = "-" THEN Tail(text) ELSE text
    IN  digits # <<>> /\ \A i \in 1..Len(digits) : Digit(digits[i]) >= 0

\* WaitSeconds with the exponent attempt + 1.
WaitSecondsNextAttempt(retry_after, tries) ==
    IF retry_after # None /\ IsNumber(Get(retry_after))
    THEN IF Head(Get(retry_after)) = "-"
         THEN -DigitsValue(Tail(Get(retry_after)), 0)
         ELSE DigitsValue(Get(retry_after), 0)
    ELSE IF Pow2(tries + 1) < 60 THEN Pow2(tries + 1) ELSE 60

\* Lines 101-105: float(retry_after) for a header that is absent (TypeError),
\* a number, or any other text (ValueError); else min(60, 2 ** attempt).
WaitSeconds(retry_after, tries) ==
    IF retry_after # None /\ IsNumber(Get(retry_after))
    THEN IF Head(Get(retry_after)) = "-"
         THEN -DigitsValue(Tail(Get(retry_after)), 0)
         ELSE DigitsValue(Get(retry_after), 0)
    ELSE IF Pow2(tries) < 60 THEN Pow2(tries) ELSE 60

\* execute retries a 429 while attempt < max_attempts.
MaxAttempts == 5

\* The calls of execute made on one client.
MaxCalls == 3

QueryText == <<"query", "{", "tournaments", "}">>

\* The arguments of a call: variables absent, an empty dict, and the same two
\* entries inserted in either order.
CallVariables ==
    {None, Some(<<>>),
     Some(<<<<"page", "1">>, <<"state", "\"GA\"">>>>),
     Some(<<<<"state", "\"GA\"">>, <<"page", "1">>>>)}

\* What session.post gives: an exception, or a response with a status code,
\* its Retry-After header and its JSON body.  A 200 body holds "errors" or
\* "data".
Response(status, retry_after, errors, data) ==
    [raises |-> FALSE, status_code |-> status, retry_after |-> retry_after,
     errors |-> errors, data |-> data]

Responses ==
    {[raises |-> TRUE]}
    \cup {Response(429, h, FALSE, None) :
            h \in {None, Some(<<"2">>), Some(<<"-", "1">>), Some(<<"W", "e", "d">>)}}
    \cup {Response(500, None, FALSE, None), Response(200, None, TRUE, None)}
    \cup {Response(200, None, FALSE, Some(d)) : d \in {"d1", "d2"}}

\* __init__, lines 60-79: a client over an empty cache directory.
ClientInit ==
    /\ NotClientIdle
    /\ use_cache \in BOOLEAN
    /\ cache = <<>>
    /\ exec_call = None
    /\ attempt = 0
    /\ posts = 0
    /\ wait_seconds = None
    /\ response = None
    /\ exec_log = <<>>
    /\ exec_pc = "ready"

\* A finished call in exec_log.
Finished(call, outcome, data) == <<call, outcome, data>>

\* Lines 80-95: a call of execute up to the loop; a cached key returns the
\* stored data.
Execute ==
    /\ exec_pc = "ready"
    /\ Len(exec_log) < MaxCalls
    /\ \E variables \in CallVariables :
          LET cache_key == MakeCacheKey(QueryText, variables)
              call == <<QueryText, variables>>
          IN  IF use_cache /\ DictHas(cache, cache_key)
              THEN /\ exec_log' = Append(exec_log,
                          Finished(call, "cached", DictGet(cache, cache_key, None)))
                   /\ UNCHANGED <<exec_call, exec_pc>>
              ELSE /\ exec_call' = Some(call)
                   /\ exec_pc' = "post"
                   /\ UNCHANGED exec_log
    /\ attempt' = 0
    /\ posts' = 0
    /\ wait_seconds' = None
    /\ response' = None
    /\ UNCHANGED <<use_cache, cache, notClientVars>>

\* Lines 97-121: one POST of the loop; unless it is retried, the rest of the
\* call.  session.post may raise; time.sleep raises ValueError on a negative
\* argument.
Post ==
    /\ exec_pc = "post"
    /\ posts' = posts + 1
    /\ \E received \in Responses :
          LET call == Get(exec_call)
              cache_key == MakeCacheKey(call[1], call[2])
              raised == /\ exec_log' = Append(exec_log, Finished(call, "raised", None))
                        /\ exec_call' = None
                        /\ exec_pc' = "ready"
                        /\ UNCHANGED <<cache, attempt>>
          IN  /\ response' = IF received.raises THEN None ELSE Some(received)
              /\ IF received.raises THEN raised /\ UNCHANGED wait_seconds
                 ELSE IF received.status_code = 429 /\ attempt < MaxAttempts
                 THEN /\ wait_seconds' = Some(WaitSeconds(received.retry_after, attempt))
                      /\ IF Get(wait_seconds') < 0 THEN raised
                         ELSE /\ attempt' = attempt + 1
                              /\ UNCHANGED <<cache, exec_call, exec_log, exec_pc>>
                 ELSE IF received.status_code >= 400 THEN raised /\ UNCHANGED wait_seconds
                 ELSE IF received.errors THEN raised /\ UNCHANGED wait_seconds
                 ELSE /\ cache' = Store(cache, use_cache, cache_key, Get(received.data))
                      /\ exec_log' = Append(exec_log,
                             Finished(call, "fetched", Get(received.data)))
                      /\ exec_call' = None
                      /\ exec_pc' = "ready"
                      /\ UNCHANGED <<attempt, wait_seconds>>
    /\ UNCHANGED <<use_cache, notClientVars>>

NextClient == Execute \/ Post

SpecClient == ClientInit /\ [][NextClient]_vars

\* The calls of execute followed to their end.
MaxRetryCalls == 2

ExecuteRetry == Len(exec_log) < MaxRetryCalls /\ Execute

NextRetry == ExecuteRetry \/ Post

\* The calls of execute when every POST comes back: session.post is called
\* with timeout=30, so a call in its loop takes its next step.
SpecClientFair == ClientInit /\ [][NextRetry]_vars /\ WF_vars(Post)

\* The entries of a call's variables; absent variables are sent as {}.
ItemsOf(variables) ==
    IF variables = None THEN {}
    ELSE {Get(variables)[i] : i \in 1..Len(Get(variables))}

\* Two calls ask for the same (query, variables).
SameRequest(a, b) == a[1] = b[1] /\ ItemsOf(a[2]) = ItemsOf(b[2])

\* The positions before i of the calls for the request of call that fetched
\* data: HTTP success and no GraphQL errors.
FetchedBefore(call, i) ==
    {j \in 1..(i - 1) : exec_log[j][2] = "fetched" /\ SameRequest(exec_log[j][1], call)}

ExpectedSleep(retry_after, retries) ==
    CASE retry_after = Some(<<"2">>) -> 2
      [] retry_after = Some(<<"-", "1">>) -> -1
      [] OTHER -> <<1, 2, 4, 8, 16>>[retries + 1]

\* The retry loop at rest or between two POSTs.
RetryStates ==
    /\ posts <= 6
    /\ attempt <= 5
    /\ exec_pc = "post" =>
          /\ posts = attempt
          /\ posts > 0 =>
                /\ response # None
                /\ response[1].status_code = 429
                /\ wait_seconds = Some(ExpectedSleep(response[1].retry_after, attempt - 1))
                /\ wait_seconds[1] >= 0
    /\ (exec_pc = "ready" /\ posts > 0) =>
          /\ posts = attempt + 1
          /\ exec_log[Len(exec_log)][2] \in {"raised", "fetched"}
          /\ response = None => exec_log[Len(exec_log)][2] = "raised"
          /\ (response # None /\ response[1].status_code = 429) =>
                /\ exec_log[Len(exec_log)][2] = "raised"
                /\ posts = 6 \/ ExpectedSleep(response[1].retry_after, attempt) < 0
          /\ exec_log[Len(exec_log)][2] = "fetched" =>
                /\ response # None
                /\ response[1].status_code = 200
                /\ ~response[1].errors

\* C28: one call of execute issues at most 6 POSTs; a 429 response is retried
\* only while fewer than 5 retries have been made, after a sleep of the
\* Retry-After value when it is a number and of min(60, 2^attempt) seconds
\* otherwise; the 6th consecutive 429 raises instead of retrying, any other
\* response ends the loop at once, and the call always terminates.
C28_RetryBounded ==
    /\ []RetryStates
    /\ (exec_pc = "post") ~> (exec_pc = "ready")

\* A call that ended on its 6th POST, answered 429 like the five before it:
\* five retries, the last one after 16 seconds, and an exception.
C28_Witness ==
    /\ exec_pc = "ready"
    /\ posts = 6
    /\ attempt = 5
    /\ wait_seconds = Some(16)
    /\ response # None
    /\ response[1].status_code = 429
    /\ response[1].retry_after = None
    /\ exec_log[Len(exec_log)][2] = "raised"

----------------------------------------------------------------------------
(* StartGGClient.iter_recent_tournaments *)

\* Line 176: node.get("startAt") or 0.
StartAt(node) == IF TruthyInt(node.startAt) THEN Get(node.startAt) ELSE 0

\* Line 177: the node is yielded.
StartsAfterCutoff(node, cutoff) == StartAt(node) > cutoff

StartsAtOrAfterCutoff(node, cutoff) == StartAt(node) >= cutoff

\* Lines 130-131 at the clock reading NowTs.
CutoffUnix(months_back) == NowTs - Days(30 * months_back)

\* The pages asked for in one iteration, and the nodes of a page.
MaxPages == 3

MaxPageNodes == 2

\* The startAt of a node: absent, just below the cutoff, the cutoff itself, a
\* day after it.
NodeStarts(cutoff) == {None, Some(cutoff - 1), Some(cutoff), Some(cutoff + Days(1))}

\* The answers of execute for a page: "nodes" null or absent, or a list of at
\* most MaxPageNodes nodes, numbered from first_id on.
PageResults(cutoff, first_id) ==
    {None} \cup
    {Some([k \in 1..n |-> [id |-> first_id + k - 1, startAt |-> starts[k]]]) :
        n \in 0..MaxPageNodes, starts \in [1..MaxPageNodes -> NodeStarts(cutoff)]}

\* The number of nodes in the pages served.
RECURSIVE CountNodes(_)
CountNodes(pages) ==
    IF pages = <<>> THEN 0 ELSE Len(Head(pages)) + CountNodes(Tail(pages))

\* Lines 130-132: the first next() enters the generator; months_back is 6 by
\* default, 0 asks for tournaments starting now.
IterInit ==
    /\ NotIterIdle
    /\ cutoff_unix \in {CutoffUnix(6), CutoffUnix(0)}
    /\ page = 1
    /\ nodes = <<>>
    /\ seen_newer = FALSE
    /\ yielded = <<>>
    /\ requested = <<>>
    /\ served = <<>>
    /\ iter_pc = "request"

\* Lines 161-174: the call of execute for the current page, which raises or
\* returns a result.
RequestPage ==
    /\ iter_pc = "request"
    /\ Len(requested) < MaxPages
    /\ requested' = Append(requested, page)
    /\ \/ /\ iter_pc' = "raised"
          /\ UNCHANGED <<nodes, seen_newer, served>>
       \/ \E result \in PageResults(cutoff_unix, CountNodes(served) + 1) :
             LET page_nodes == IF result = None THEN <<>> ELSE Get(result)
             IN  /\ served' = Append(served, page_nodes)
                 /\ nodes' = page_nodes
                 /\ IF page_nodes = <<>>
                    THEN /\ iter_pc' = "stopped"
                         /\ UNCHANGED seen_newer
                    ELSE /\ iter_pc' = "nodes"
                         /\ seen_newer' = FALSE
    /\ UNCHANGED <<cutoff_unix, page, yielded, notIterVars>>

\* Lines 175-186: one node of the page; after the last one, the end of the
\* loop body.
VisitNode ==
    /\ iter_pc = "nodes"
    /\ LET node == Head(nodes)
       IN  IF StartsAtOrAfterCutoff(node, cutoff_unix)
           THEN /\ yielded' = Append(yielded, node)
                /\ nodes' = Tail(nodes)
                /\ seen_newer' = TRUE
                /\ IF Tail(nodes) # <<>>
                   THEN UNCHANGED <<page, iter_pc>>
                   ELSE IF ~seen_newer'
                        THEN iter_pc' = "stopped" /\ UNCHANGED page
                        ELSE page' = page + 1 /\ iter_pc' = "request"
           ELSE /\ iter_pc' = "stopped"
                /\ UNCHANGED <<nodes, seen_newer, yielded, page>>
    /\ UNCHANGED <<cutoff_unix, requested, served, notIterVars>>

NextIter == RequestPage \/ VisitNode

SpecIter == IterInit /\ [][NextIter]_vars

\* The nodes served, in order.
ServedNodes == Concat(served)

\* A node starts below the cutoff; a missing startAt counts as 0.
Old(node) == (IF node.startAt = None THEN 0 ELSE Get(node.startAt)) < cutoff_unix

\* C18: the generator yields only tournaments whose startAt is >= the cutoff,
\* in the order the server returns them; it stops permanently at the first
\* node below the cutoff or at the first empty page: no node after such a
\* node is yielded and no further page is requested.
C18_StopsAtCutoff ==
    /\ cutoff_unix \in {NowTs - 30 * 6 * SecondsPerDay, NowTs}
    /\ \A i \in 1..Len(yielded) : ~Old(yielded[i])
    /\ Len(yielded) <= Len(ServedNodes)
    /\ yielded = SubSeq(ServedNodes, 1, Len(yielded))
    /\ requested = [i \in 1..Len(requested) |-> i]
    /\ Len(served) <= Len(requested)
    /\ \A k \in 1..(Len(requested) - 1) :
          /\ served[k] # <<>>
          /\ \A i \in 1..Len(served[k]) : ~Old(served[k][i])
    /\ iter_pc = "stopped" =>
          /\ Len(served) = Len(requested)
          /\ \/ served[Len(served)] = <<>>
             \/ /\ Len(yielded) < Len(ServedNodes)
                /\ Old(ServedNodes[Len(yielded) + 1])
    /\ iter_pc = "request" => yielded = ServedNodes
    /\ iter_pc = "nodes" => yielded \o nodes = ServedNodes

\* Two full pages were yielded and the third page holds a node at the cutoff,
\* which is yielded, before a node without startAt, at which the generator
\* stopped.
C18_Witness ==
    /\ iter_pc = "stopped"
    /\ requested = <<1, 2, 3>>
    /\ Len(yielded) = 2 * MaxPageNodes + 1
    /\ yielded[Len(yielded)].startAt = Some(cutoff_unix)
    /\ Len(served[3]) = 2
    /\ served[3][2].startAt = None

----------------------------------------------------------------------------
(* smash_data._paginate_event_field *)

\* The largest totalPages a page reports, and the most nodes a page holds.
MaxTotalPages == 3

MaxFieldNodes == 2

\* What the n-th call of client.execute gives: an exception, or a payload
\* whose "event" is None, {} or a dict with one field.  The field's container
\* is None, or holds "nodes" (the k-th node of the n-th payload is <<n, k>>)
\* and "pageInfo", which is None or has totalPages absent or a number.
FieldPayloads(n) ==
    {[raises |-> TRUE]}
    \cup {[raises |-> FALSE, event |-> e] : e \in {None, Some(<<>>), Some(<<None>>)}}
    \cup {[raises |-> FALSE,
           event |-> Some(<<Some([nodes |-> [k \in 1..len |-> <<n, k>>],
                                  pageInfo |-> info])>>)] :
            len \in 0..MaxFieldNodes,
            info \in {None, Some([totalPages |-> None])}
                     \cup {Some([totalPages |-> Some(t)]) : t \in 0..MaxTotalPages}}

\* Line 135 with the reported value placed before the local one.
TotalPagesReportedFirst(current, reported) ==
    IF TruthyInt(reported) THEN Get(reported)
    ELSE IF TruthyInt(current) THEN Get(current) ELSE 1

\* Line 135: total_pages or page_info.get("totalPages") or 1.
TotalPages(current, reported) ==
    IF TruthyInt(current) THEN Get(current)
    ELSE IF TruthyInt(reported) THEN Get(reported) ELSE 1

\* Lines 116-118: the locals before the loop.
PaginateInit ==
    /\ NotPaginateIdle
    /\ field_page = 1
    /\ total_pages = None
    /\ field_results = <<>>
    /\ field_requested = <<>>
    /\ field_payloads = <<>>
    /\ field_pc = "loop"

\* Lines 120-142: one iteration of "while True", and the return after a break.
FieldPage ==
    /\ field_pc = "loop"
    /\ field_requested' = Append(field_requested, field_page)
    /\ \E payload \in FieldPayloads(Len(field_requested) + 1) :
          IF payload.raises
          THEN /\ field_pc' = "raised"
               /\ UNCHANGED <<field_page, total_pages, field_results, field_payloads>>
          ELSE /\ field_payloads' = Append(field_payloads, payload)
               /\ IF payload.event = None \/ Get(payload.event) = <<>>
                  THEN /\ field_pc' = "returned"
                       /\ UNCHANGED <<field_page, total_pages, field_results>>
                  ELSE LET container == Get(payload.event)[1]
                           field_nodes == IF container = None THEN <<>>
                                          ELSE Get(container).nodes
                           page_info == IF container = None THEN None
                                        ELSE Get(container).pageInfo
                           reported == IF page_info = None THEN None
                                       ELSE Get(page_info).totalPages
                       IN  /\ field_results' = field_results \o field_nodes
                           /\ total_pages' = Some(TotalPages(total_pages, reported))
                           /\ IF field_page >= Get(total_pages')
                              THEN /\ field_pc' = "returned"
                                   /\ UNCHANGED field_page
                              ELSE /\ field_page' = field_page + 1
                                   /\ field_pc' = "loop"
    /\ UNCHANGED notPaginateVars

NextPaginate == FieldPage

SpecPaginate == PaginateInit /\ [][NextPaginate]_vars

\* client.execute returns or raises (its retry loop is bounded and its POSTs
\* time out), so the loop takes its next step.
SpecPaginateFair == SpecPaginate /\ WF_vars(FieldPage)

\* The payload has an event: a non-empty dict.
HasEvent(payload) == payload.event # None /\ payload.event # Some(<<>>)

\* The nodes of a payload with an event, and the totalPages it reports, 0 when
\* it reports none.
NodesOfPayload(payload) ==
    IF payload.event[1][1] = None THEN <<>> ELSE payload.event[1][1][1].nodes

ReportedBy(payload) ==
    IF payload.event[1][1] = None THEN 0
    ELSE IF payload.event[1][1][1].pageInfo = None THEN 0
    ELSE IF payload.event[1][1][1].pageInfo[1].totalPages = None THEN 0
    ELSE payload.event[1][1][1].pageInfo[1].totalPages[1]

RECURSIVE NodesOfPayloads(_)
NodesOfPayloads(payloads) ==
    IF payloads = <<>> THEN <<>>
    ELSE (IF HasEvent(Head(payloads)) THEN NodesOfPayload(Head(payloads)) ELSE <<>>)
         \o NodesOfPayloads(Tail(payloads))

\* N: the totalPages value of the first page, 1 when it is absent or 0.
PagesToRead ==
    IF ReportedBy(field_payloads[1]) = 0 THEN 1 ELSE ReportedBy(field_payloads[1])

PagesRead ==
    /\ field_requested = [i \in 1..Len(field_requested) |-> i]
    /\ field_results = NodesOfPayloads(field_payloads)
    /\ \A i \in 1..(Len(field_payloads) - 1) : HasEvent(field_payloads[i])
    /\ field_payloads # <<>> =>
          IF HasEvent(field_payloads[1])
          THEN Len(field_requested) <= PagesToRead
          ELSE Len(field_requested) = 1
    /\ (field_pc = "loop" /\ field_payloads # <<>>) =>
          /\ Len(field_requested) < PagesToRead
          /\ field_page = Len(field_requested) + 1
    /\ field_pc = "returned" =>
          /\ Len(field_payloads) = Len(field_requested)
          /\ \/ ~HasEvent(field_payloads[Len(field_payloads)])
             \/ Len(field_requested) = PagesToRead

\* C29: _paginate_event_field requests pages 1, 2, ..., N in increasing order,
\* each exactly once, N being the totalPages value of the first page (1 when
\* it is absent or 0; values reported by later pages are ignored), returns
\* the concatenation of those pages' nodes in order, stops earlier only on a
\* response without event payload, and so ends after at most N requests.
C29_PagesOneToN ==
    /\ []PagesRead
    /\ (field_pc = "loop") ~> (field_pc \in {"returned", "raised"})

\* A return after three requests: page 1 reports 3 pages, page 2 reports 1
\* and page 3 reports 2; the result is the nodes of the three pages in order.
C29_Witness ==
    /\ field_pc = "returned"
    /\ field_requested = <<1, 2, 3>>
    /\ ReportedBy(field_payloads[1]) = 3
    /\ ReportedBy(field_payloads[2]) = 1
    /\ HasEvent(field_payloads[3])
    /\ ReportedBy(field_payloads[3]) = 2
    /\ field_results = <<<<1, 1>>, <<2, 1>>, <<2, 2>>, <<3, 1>>>>

----------------------------------------------------------------------------
(* The per-set and per-record counters, recounted from the records *)

\* The known-outcome sets of a player among results, in order, each with the
\* record that holds it.
RECURSIVE SetsOfRecord(_, _)
SetsOfRecord(result, sets) ==
    IF sets = <<>> THEN <<>>
    ELSE (IF Head(sets).won # None
          THEN <<[result |-> result, set_record |-> Head(sets)]>> ELSE <<>>)
         \o SetsOfRecord(result, Tail(sets))

RECURSIVE CountedSets(_, _)
CountedSets(results, pid) ==
    IF results = <<>> THEN <<>>
    ELSE (IF Head(results).player_id = pid
          THEN SetsOfRecord(Head(results), Head(results).sets) ELSE <<>>)
         \o CountedSets(Tail(results), pid)

\* The strength of a set's opponent: 1/seed for a seed present and non-zero,
\* else 1/placement for a placement present and non-zero, else absent.
StrengthOf(set_record) ==
    IF set_record.opponent_seed # None /\ Get(set_record.opponent_seed) # 0
    THEN Some(<<1, Get(set_record.opponent_seed)>>)
    ELSE IF set_record.opponent_placement # None /\ Get(set_record.opponent_placement) # 0
         THEN Some(<<1, Get(set_record.opponent_placement)>>)
         ELSE None

\* The samples of a player: the present strengths of the counted sets.
RECURSIVE Samples(_)
Samples(counted) ==
    IF counted = <<>> THEN <<>>
    ELSE (IF StrengthOf(Head(counted).set_record) # None
          THEN <<Get(StrengthOf(Head(counted).set_record))>> ELSE <<>>)
         \o Samples(Tail(counted))

\* C21: the opponent strength of a set is 1/seed when the opponent seed is
\* present and non-zero, otherwise 1/placement when the placement is present
\* and non-zero, otherwise absent; a present value lies in (0, 1]; exactly the
\* known-outcome sets with a present strength contribute one sample each, and
\* opponent_strength is the mean of the samples, absent if there are none.
C21_OpponentStrength ==
    /\ \A k \in 1..Len(aggregates) :
          LET samples == Samples(CountedSets(player_results, aggregates[k].player_id))
          IN  /\ aggregates[k].opponent_strength_values = samples
              /\ \A i \in 1..Len(samples) :
                    RatLt(<<0, 1>>, samples[i]) /\ RatLe(samples[i], <<1, 1>>)
    /\ pc = "done" =>
          \A i \in 1..Len(table) :
              LET samples == Samples(CountedSets(player_results, table[i].player_id))
                  total == SumRats(samples)
              IN  table[i].opponent_strength =
                     IF samples = <<>> THEN None
                     ELSE Some(Frac(total[1], total[2] * Len(samples)))

\* A row over two counted sets, one whose opponent has seed 4 and placement 2
\* and one whose opponent has seed 0 and placement 2: the samples are 1/4 and
\* 1/2, their mean 3/8.
C21_Witness ==
    /\ pc = "done"
    /\ Len(table) = 1
    /\ table[1].sets_played = 2
    /\ AggOf(1000).opponent_strength_values = <<<<1, 4>>, <<1, 2>>>>
    /\ table[1].opponent_strength = Some(<<3, 8>>)

\* The character list of a set names the target, whatever the case of either.
NamesTarget(set_record) ==
    \E i \in 1..Len(Get(set_record.characters)) :
        Upper(Get(set_record.characters)[i]) = Upper(target_character)

\* The counted sets that name the target, and the won ones among them.
RECURSIVE Naming(_)
Naming(counted) ==
    IF counted = <<>> THEN <<>>
    ELSE (IF NamesTarget(Head(counted).set_record) THEN <<Head(counted)>> ELSE <<>>)
         \o Naming(Tail(counted))

RECURSIVE Won(_)
Won(counted) ==
    IF counted = <<>> THEN <<>>
    ELSE (IF Head(counted).set_record.won = Some(TRUE) THEN <<Head(counted)>> ELSE <<>>)
         \o Won(Tail(counted))

\* The event weights of counted sets, added up in order as floats.
RECURSIVE WeightTotal(_, _)
WeightTotal(counted, acc) ==
    IF counted = <<>> THEN acc
    ELSE WeightTotal(Tail(counted),
                     FloatAdd(acc, EventWeight(Get(Head(counted).result.event), NowTs)))

\* C22: character_sets is the number of the player's known-outcome sets whose
\* character list contains the target character under case-insensitive exact
\* match, character_wins the number of those that were won, and
\* character_weight_sum / character_weighted_wins the sums of the event
\* weights of those sets / of the won ones; a set whose list is empty or
\* names only other characters changes none of them.
C22_CharacterCounters ==
    \A k \in 1..Len(aggregates) :
        LET naming == Naming(CountedSets(player_results, aggregates[k].player_id))
        IN  /\ aggregates[k].character_sets = Len(naming)
            /\ aggregates[k].character_wins = Len(Won(naming))
            /\ aggregates[k].character_weight_sum = WeightTotal(naming, 0)
            /\ aggregates[k].character_weighted_wins = WeightTotal(Won(naming), 0)

\* Two records: a won set at the recent event naming the target second and
\* in upper case, then a lost set at the old event naming "Marth ".
C22_Witness ==
    /\ Len(player_results) = 2
    /\ Len(aggregates) = 1
    /\ player_results[1].event = Some(EventNow)
    /\ player_results[1].sets =
          <<SetRecord(Some(TRUE), None, None, Some(<<Fox, MARTH>>))>>
    /\ player_results[2].event = Some(EventOld)
    /\ player_results[2].sets =
          <<SetRecord(Some(FALSE), None, None, Some(<<Marth \o <<" ">>>>))>>
    /\ aggregates[1].sets_played = 2
    /\ aggregates[1].character_sets = 1
    /\ aggregates[1].character_wins = 1
    /\ aggregates[1].character_weight_sum = EventWeight(EventNow, NowTs)
    /\ aggregates[1].character_weighted_wins = EventWeight(EventNow, NowTs)

\* The records of a player among results, in order.
RECURSIVE RecordsOf(_, _)
RecordsOf(results, pid) ==
    IF results = <<>> THEN <<>>
    ELSE (IF Head(results).player_id = pid THEN <<Head(results)>> ELSE <<>>)
         \o RecordsOf(Tail(results), pid)

\* seed - placement of the records that carry both, in order.
RECURSIVE Deltas(_)
Deltas(results) ==
    IF results = <<>> THEN <<>>
    ELSE (IF Head(results).seed_num # None /\ Head(results).placement # None
          THEN <<Head(results).seed_num[1] - Head(results).placement[1]>> ELSE <<>>)
         \o Deltas(Tail(results))

\* C23: a Match Record appends seed - placement to the player's seed-delta
\* list exactly when both its seed and its placement are present, whether or
\* not the record has a known-outcome set, and appends nothing otherwise;
\* avg_seed_delta is the arithmetic mean of that list and is absent when the
\* list is empty.
C23_SeedDeltas ==
    /\ \A k \in 1..Len(aggregates) :
          aggregates[k].seed_deltas =
              Deltas(RecordsOf(player_results, aggregates[k].player_id))
    /\ pc = "done" =>
          \A i \in 1..Len(table) :
              LET deltas == Deltas(RecordsOf(player_results, table[i].player_id))
              IN  table[i].avg_seed_delta =
                     IF deltas = <<>> THEN None
                     ELSE Some(Frac(SumInts(deltas), Len(deltas)))

\* A row for Alice over a record without sets seeded 2 and placed 3 and a
\* record with a won set whose seed is absent: the list is <<-1>>.
C23_Witness ==
    /\ pc = "done"
    /\ Len(player_results) = 2
    /\ player_results[1].player_id = 1000 /\ player_results[2].player_id = 1000
    /\ player_results[1].sets = <<>>
    /\ player_results[1].seed_num = Some(2) /\ player_results[1].placement = Some(3)
    /\ player_results[2].sets = <<PlainWin>>
    /\ player_results[2].seed_num = None /\ player_results[2].placement = Some(1)
    /\ AggOf(1000).seed_deltas = <<-1>>
    /\ Len(table) = 1
    /\ table[1].avg_seed_delta = Some(<<-1, 1>>)

\* The distinct non-empty tournament names among the records.
NamesOf(results) ==
    {results[i].tournament[1].name[1] :
        i \in {j \in 1..Len(results) :
                  /\ results[j].tournament[1].name # None
                  /\ results[j].tournament[1].name[1] # ""}}

\* C24: events_played of an emitted row equals the number of Match Records
\* seen for that player id, records with no known-outcome set included, and
\* tournaments_played equals the number of distinct non-empty tournament names
\* among those records, so tournaments_played <= events_played.
C24_EventsAndTournaments ==
    pc = "done" =>
        \A i \in 1..Len(table) :
            LET mine == RecordsOf(player_results, table[i].player_id)
            IN  /\ table[i].events_played = Len(mine)
                /\ table[i].tournaments_played = Cardinality(NamesOf(mine))
                /\ table[i].tournaments_played <= table[i].events_played

\* A row for Alice over two records at "T1", the first without sets, while
\* Bob has no row.
C24_Witness ==
    /\ pc = "done"
    /\ Len(player_results) = 2
    /\ \A i \in 1..2 : /\ player_results[i].player_id = 1000
                       /\ player_results[i].tournament[1].name = Some("T1")
    /\ player_results[1].sets = <<>>
    /\ player_results[2].sets = <<PlainWin>>
    /\ Len(table) = 1
    /\ table[1].events_played = 2
    /\ table[1].tournaments_played = 1

\* C25: in every reachable aggregate state sets_played > 0 implies
\* weight_sum > 0 and 0 <= weighted_wins <= weight_sum, each known-outcome set
\* having added an event weight of at least 0.1 to weight_sum; hence
\* weighted_win_rate is absent in no emitted row, and no row is placed by the
\* rule that an absent key sorts last.
C25_WeightSumPositive ==
    /\ \A k \in 1..Len(aggregates) :
          aggregates[k].sets_played > 0 =>
              /\ aggregates[k].weight_sum >= MinWeightMilli
              /\ 0 <= aggregates[k].weighted_wins
              /\ aggregates[k].weighted_wins <= aggregates[k].weight_sum
    /\ \A i \in 1..Len(player_results) :
          (\E j \in 1..Len(player_results[i].sets) : player_results[i].sets[j].won # None)
              => EventWeight(Get(player_results[i].event), NowTs) >= MinWeightMilli
    /\ \A i \in 1..Len(rows) : rows[i].weighted_win_rate # None
    /\ \A i \in 1..Len(table) : table[i].weighted_win_rate # None

\* A row over sets lost at the ancient event only: weight_sum is twice the
\* floor, weighted_wins 0 and weighted_win_rate 0.
C25_Witness ==
    /\ pc = "done"
    /\ Len(player_results) = 1
    /\ player_results[1].event = Some(EventAncient)
    /\ player_results[1].sets = <<PlainLoss, PlainLoss>>
    /\ aggregates[1].weighted_wins = 0
    /\ aggregates[1].weight_sum = 2 * MinWeightMilli
    /\ Len(table) = 1
    /\ table[1].weighted_win_rate = Some(<<0, 1>>)

\* The first record of a player among the records consumed.
FirstRecordOf(pid) ==
    player_results[CHOOSE i \in 1..Len(player_results) :
                      /\ player_results[i].player_id = pid
                      /\ \A j \in 1..(i - 1) : player_results[j].player_id # pid]

\* The state entry of the record's player-level profile location, absent
\* when the record has no such location.
ProfileStateOf(result) ==
    IF result.player_location = None THEN None ELSE result.player_location[1]

\* C26: gamer_tag and the explicit region stored in a player's aggregate are
\* those of the first Match Record seen for the player id; every later record
\* of the player leaves them unchanged, also when it carries another display
\* name or a profile location that the first record lacked, and the emitted
\* row reports them.
C26_IdentityFromFirstRecord ==
    /\ \A k \in 1..Len(aggregates) :
          LET first == FirstRecordOf(aggregates[k].player_id)
          IN  /\ aggregates[k].gamer_tag = first.gamer_tag
              /\ aggregates[k].state = ProfileStateOf(first)
    /\ pc = "done" =>
          \A i \in 1..Len(table) :
              LET first == FirstRecordOf(table[i].player_id)
              IN  /\ table[i].gamer_tag = first.gamer_tag
                  /\ table[i].state = ProfileStateOf(first)
                  /\ first.player_location = None => table[i].home_state = None

\* Alice's first record has no profile location; her second one is named
\* "Al1ce" and located in GA; Bob's record stands between them.
C26_Witness ==
    /\ pc = "done"
    /\ Len(player_results) = 3
    /\ player_results[1].player_id = 1000
    /\ player_results[1].gamer_tag = "Alice"
    /\ player_results[1].player_location = None
    /\ player_results[2].player_id = 2000
    /\ player_results[3].player_id = 1000
    /\ player_results[3].gamer_tag = "Al1ce"
    /\ player_results[3].player_location = Some(Some(GA))
    /\ AggOf(1000).gamer_tag = "Alice"
    /\ AggOf(1000).state = None
    /\ AggOf(1000).events_played = 2
    /\ \E i \in 1..Len(table) :
          /\ table[i].player_id = 1000
          /\ table[i].gamer_tag = "Alice"
          /\ table[i].state = None

\* The entries of a tally whose count is the highest: the ones a max selection
\* may return.
TopEntries(d) == {i \in 1..Len(d) : \A j \in 1..Len(d) : d[j][2] <= d[i][2]}

\* C27: the inferred region does not depend on how ties for the highest region
\* count are broken: whichever of the equally-top entries of the tally the max
\* selection returns, inferred_state and inferred_state_confidence are the
\* same, and they are those of the emitted row; when the top count is tied, or
\* "UNKNOWN" is among the top regions, no region is inferred.
C27_TieBreakIndependent ==
    /\ \A k \in 1..Len(aggregates) :
          LET d == aggregates[k].event_state_counts
              total == SumCounts(d)
          IN  d # <<>> =>
                 /\ \A i \in TopEntries(d) :
                       InferFrom(d[i], total) = InferRegion(d)
                 /\ (Cardinality(TopEntries(d)) > 1
                       \/ \E i \in TopEntries(d) : d[i][1] = UNKNOWN)
                      => InferRegion(d) = <<None, None>>
    /\ pc = "done" =>
          \A r \in 1..Len(table) :
              LET d == AggOf(table[r].player_id).event_state_counts
              IN  \A i \in TopEntries(d) :
                     InferFrom(d[i], SumCounts(d)) =
                        <<table[r].inferred_state, table[r].inferred_state_confidence>>

\* A tally with GA and FL tied at 2 and one UNKNOWN, FL counted first: either
\* choice infers nothing, and the row has no inferred region.
C27_Witness ==
    /\ pc = "done"
    /\ Len(table) = 1
    /\ aggregates[1].event_state_counts = <<<<FL, 2>>, <<GA, 2>>, <<UNKNOWN, 1>>>>
    /\ TopEntries(aggregates[1].event_state_counts) = {1, 2}
    /\ table[1].inferred_state = None
    /\ table[1].inferred_state_confidence = None
    /\ table[1].events_with_known_state = 5

====
